---- MODULE Spec2Model ----
(***************************************************************************)
(* Backend selection and fallback of python_companyatlas:                  *)
(* BaseBackend construction and status (backends/base.py), get_backends    *)
(* and search_companies (backends/helpers.py), the identifier functions    *)
(* of FrenchBaseBackend and the operations of the French backends          *)
(* (backends/europe/france).                                               *)
(*                                                                         *)
(* Spec: a search_companies call is one action: the function is            *)
(* synchronous and touches no shared state.  The call records, besides its *)
(* outcome, which backends it constructed, whose status it computed, which *)
(* statuses it iterated over and which backend operations it invoked.      *)
(*                                                                         *)
(* IdentifierSpec: the identifier functions applied to an identifier.      *)
(*                                                                         *)
(* BackendSpec: one backend instance constructed, configured, evaluated    *)
(* and called directly.                                                    *)
(*                                                                         *)
(* ConfigSpec: the configuration mappings of a caller and of a backend     *)
(* instance as objects, with their values.                                 *)
(*                                                                         *)
(* CliSpec: python_companyatlas.cli.main on an argument vector.            *)
(*                                                                         *)
(* ClientSpec: CompanyAtlas.lookup and enrich (python_companyatlas/        *)
(* client.py).                                                             *)
(*                                                                         *)
(* ProviderSpec: the field normalisation of InseeProvider and              *)
(* EntdatagouvProvider (companyatlas/providers/europe/france).             *)
(*                                                                         *)
(* InpiSpec: the token cache of one InpiProvider instance.                 *)
(***************************************************************************)
EXTENDS Integers, Sequences, FiniteSets, TLC

VARIABLES registry, config, installed, remote, pc, args, outcome, raised,
          constructed, evaluated, candidates, invoked,
          instance, environ, history, opresult, identifier, idresult,
          heap, holder, cli, client, provider, inpi

(* The state of a search_companies call. *)
searchVars == <<registry, remote, pc, args, outcome, raised,
                constructed, evaluated, candidates, invoked>>

(* One backend instance held by a caller, the process environment, the     *)
(* evaluations made of the instance and the last operation called on it.   *)
backendVars == <<instance, environ, history, opresult>>

(* An identifier string and the last function applied to it. *)
identVars == <<identifier, idresult>>

(* The mappings a caller and a backend instance hold (heap, holder), the   *)
(* last run of the command line (cli), the last call on a CompanyAtlas     *)
(* client (client), the last normalisation by a provider (provider) and    *)
(* one InpiProvider instance (inpi).                                       *)
restVars == <<heap, holder, cli, client, provider, inpi>>

vars == <<registry, config, installed, remote, pc, args, outcome, raised,
          constructed, evaluated, candidates, invoked,
          instance, environ, history, opresult, identifier, idresult,
          heap, holder, cli, client, provider, inpi>>

(* Longest registry the model enumerates. *)
MaxBackends == 3

(* Python's None, for optional string arguments. *)
None == "None"

Fetches == {"data", "documents", "events"}

(* ---------------------------------------------------------------------- *)
(* Small helpers on sequences.                                             *)
(* ---------------------------------------------------------------------- *)
Range(s) == {s[i] : i \in 1..Len(s)}

Contains(s, x) == \E i \in 1..Len(s) : s[i] = x

IndexOf(s, x) == CHOOSE i \in 1..Len(s) : s[i] = x

(* ---------------------------------------------------------------------- *)
(* str.lower() and str.upper() on the strings the model uses.              *)
(* ---------------------------------------------------------------------- *)
Lower(s) ==
    CASE s = "INSEE" -> "insee"
      [] s = "BODACC" -> "bodacc"
      [] s = "PAID" -> "paid"
      [] s = "Open" -> "open"
      [] s = "FR" -> "fr"
      [] s = "GB" -> "gb"
      [] s = "XX" -> "xx"
      [] OTHER -> s

Upper(s) ==
    CASE s = "fr" -> "FR"
      [] s = "gb" -> "GB"
      [] s = "xx" -> "XX"
      [] s = "insee" -> "INSEE"
      [] s = "bodacc" -> "BODACC"
      [] s = "paid" -> "PAID"
      [] s = "open" -> "OPEN"
      [] s = "Open" -> "OPEN"
      [] OTHER -> s

(* ---------------------------------------------------------------------- *)
(* Backend classes.  A class is its descriptor (class attributes) plus     *)
(* what its __init__ does and which operations it defines itself.          *)
(*   init = "config_or_env": __init__ calls self._get_config_or_env, which *)
(*          no class of the backends package defines;                      *)
(*   init = "plain": __init__ only reads self.config.                      *)
(* request_cost is the cost declared for every capability.                 *)
(* ---------------------------------------------------------------------- *)
Free == [kind |-> "free", amount |-> 0]

Cost(n) == [kind |-> "number", amount |-> n]

INSEEBackend ==
    [name |-> "insee", country_code |-> "FR", continent |-> None,
     caps |-> {"data"}, request_cost |-> Free,
     config_keys |-> <<"api_key">>, required_packages |-> <<"requests">>,
     init |-> "config_or_env", implements |-> {"data"}]

BODACCBackend ==
    [name |-> "bodacc", country_code |-> "FR", continent |-> None,
     caps |-> {"documents", "events"}, request_cost |-> Free,
     config_keys |-> <<"api_key", "base_url">>,
     required_packages |-> <<"requests">>,
     init |-> "plain", implements |-> {"documents", "events"}]

PaidBackend ==
    [name |-> "paid", country_code |-> "FR", continent |-> None,
     caps |-> Fetches, request_cost |-> Cost(5),
     config_keys |-> <<"api_key">>, required_packages |-> <<"requests">>,
     init |-> "plain", implements |-> Fetches]

OpenBackend ==
    [name |-> "open", country_code |-> "GB", continent |-> None,
     caps |-> {"data", "events"}, request_cost |-> Free,
     config_keys |-> <<>>, required_packages |-> <<>>,
     init |-> "plain", implements |-> {"data", "events"}]

BackendClasses == {INSEEBackend, BODACCBackend, PaidBackend, OpenBackend}

ClassNames == {c.name : c \in BackendClasses}

ClassOf(n) == CHOOSE c \in BackendClasses : c.name = n

(* _ALL_BACKEND_CLASSES: a list of distinct classes. *)
Registries ==
    {r \in UNION {[1..n -> ClassNames] : n \in 1..MaxBackends} :
        \A i, j \in 1..Len(r) : i # j => r[i] # r[j]}

ConfigKeys == {"api_key", "base_url"}

Packages == {"requests"}

(* What the remote registry of a backend answers to one operation call. *)
Responses == {"empty", "one", "raises"}

(* ---------------------------------------------------------------------- *)
(* BaseBackend.__init__, _filter_config and the subclass __init__.         *)
(* A configuration mapping is modelled by the set of its keys.             *)
(* ---------------------------------------------------------------------- *)
FilterConfig(cls, cfg) ==
    IF cls.config_keys = <<>> THEN cfg ELSE Range(cls.config_keys) \cap cfg

NewBackend(cls, cfg) ==
    IF cls.init = "config_or_env"
    THEN [exc |-> "AttributeError", cls |-> cls, raw_config |-> cfg,
          config |-> FilterConfig(cls, cfg)]
    ELSE [exc |-> "none", cls |-> cls, raw_config |-> cfg,
          config |-> FilterConfig(cls, cfg)]

(* ---------------------------------------------------------------------- *)
(* BaseBackend.check_required_packages / check_config_keys / get_status.   *)
(* The status mapping has the keys get_status writes, no others.           *)
(* ---------------------------------------------------------------------- *)
MissingPackages(inst, pkgs) ==
    LET Missing(p) == p \notin pkgs
    IN  SelectSeq(inst.cls.required_packages, Missing)

MissingConfig(inst) ==
    LET Missing(k) == k \notin inst.raw_config
    IN  SelectSeq(inst.cls.config_keys, Missing)

(* A get_status that writes the descriptor keys the orchestrator reads and  *)
(* skips the requirement checks: every backend is reported available.      *)
GetStatusRequirementsUnchecked(inst, pkgs) ==
    [status |-> "available",
     is_available |-> TRUE,
     name |-> inst.cls.name,
     backend_name |-> inst.cls.name,
     country_code |-> inst.cls.country_code,
     can_fetch_documents |-> ("documents" \in inst.cls.caps),
     can_fetch_events |-> ("events" \in inst.cls.caps),
     can_fetch_company_data |-> ("data" \in inst.cls.caps),
     missing_packages |-> <<>>,
     missing_config |-> <<>>]

(* get_status without the missing_config branch of the verdict. *)
GetStatusConfigUnchecked(inst, pkgs) ==
    LET missing_packages == MissingPackages(inst, pkgs)
        missing_config == MissingConfig(inst)
        status == IF missing_packages # <<>> THEN "missing_packages"
                  ELSE "available"
    IN  [status |-> status,
         is_available |-> (status = "available"),
         backend_name |-> inst.cls.name,
         country_code |-> inst.cls.country_code,
         missing_packages |-> missing_packages,
         missing_config |-> missing_config]

GetStatus(inst, pkgs) ==
    LET missing_packages == MissingPackages(inst, pkgs)
        missing_config == MissingConfig(inst)
        status == IF missing_packages # <<>> THEN "missing_packages"
                  ELSE IF missing_config # <<>> THEN "missing_config"
                  ELSE "available"
    IN  [status |-> status,
         is_available |-> (status = "available"),
         backend_name |-> inst.cls.name,
         country_code |-> inst.cls.country_code,
         missing_packages |-> missing_packages,
         missing_config |-> missing_config]

(* dict.get(key, default) on a status mapping. *)
StatusGet(status, key, default) ==
    IF key \in DOMAIN status THEN status[key] ELSE default

(* ---------------------------------------------------------------------- *)
(* get_all_backends: the classes are constructed in list order; the first  *)
(* constructor that raises ends the comprehension with its exception.      *)
(* ---------------------------------------------------------------------- *)
RECURSIVE BuildAll(_, _, _, _)
BuildAll(reg, cfg, i, acc) ==
    IF i > Len(reg) THEN acc
    ELSE LET inst == NewBackend(ClassOf(reg[i]), cfg)
             built == Append(acc.constructed, reg[i])
         IN  IF inst.exc # "none"
             THEN [exc |-> inst.exc, instances |-> acc.instances,
                   constructed |-> built]
             ELSE BuildAll(reg, cfg, i + 1,
                           [exc |-> "none",
                            instances |-> Append(acc.instances, inst),
                            constructed |-> built])

GetAllBackends(reg, cfg) ==
    BuildAll(reg, cfg, 1,
             [exc |-> "none", instances |-> <<>>, constructed |-> <<>>])

(* ---------------------------------------------------------------------- *)
(* get_backends, with the filters search_companies passes: country_code    *)
(* (None or a string) and the three capability filters (an optional bool:  *)
(* {} is None, {TRUE} is True, {FALSE} is False).  `status.get(key)` of an  *)
(* absent key is None, which differs from both booleans.                   *)
(* ---------------------------------------------------------------------- *)
NoFilters ==
    [country_code |-> None, can_fetch_documents |-> {},
     can_fetch_events |-> {}, can_fetch_company_data |-> {}]

CapabilityDiffers(status, key, want) ==
    /\ want # {}
    /\ IF key \in DOMAIN status THEN {status[key]} # want ELSE TRUE

(* FilteredOut without the test of can_fetch_documents. *)
FilteredOutDocumentsUnchecked(status, f) ==
    \/ /\ f.country_code # None
       /\ Upper(StatusGet(status, "country_code", "")) # Upper(f.country_code)
    \/ CapabilityDiffers(status, "can_fetch_events", f.can_fetch_events)
    \/ CapabilityDiffers(status, "can_fetch_company_data",
                         f.can_fetch_company_data)

FilteredOut(status, f) ==
    \/ /\ f.country_code # None
       /\ Upper(StatusGet(status, "country_code", "")) # Upper(f.country_code)
    \/ CapabilityDiffers(status, "can_fetch_documents", f.can_fetch_documents)
    \/ CapabilityDiffers(status, "can_fetch_events", f.can_fetch_events)
    \/ CapabilityDiffers(status, "can_fetch_company_data",
                         f.can_fetch_company_data)

BackendStatus(inst, pkgs) ==
    GetStatus(inst, pkgs) @@ [continent |-> inst.cls.continent]

GetBackends(reg, cfg, pkgs, f) ==
    LET all == GetAllBackends(reg, cfg)
    IN  IF all.exc # "none"
        THEN [exc |-> all.exc, statuses |-> <<>>,
              constructed |-> all.constructed, evaluated |-> <<>>]
        ELSE LET every == [i \in 1..Len(all.instances) |->
                              BackendStatus(all.instances[i], pkgs)]
                 Kept(s) == ~FilteredOut(s, f)
             IN  [exc |-> "none", statuses |-> SelectSeq(every, Kept),
                  constructed |-> all.constructed,
                  evaluated |-> [i \in 1..Len(every) |-> every[i].backend_name]]

(* ---------------------------------------------------------------------- *)
(* Outcome mappings and the entries of their errors list.  An entry keeps  *)
(* the parts the code formats into the message string.                     *)
(* ---------------------------------------------------------------------- *)
NoOutcome == [pending |-> TRUE]

Message(text) ==
    [kind |-> "message", backend |-> None, text |-> text, available |-> {}]

(* f"{backend_name}: {str(e)}" *)
BackendError(name, text) ==
    [kind |-> "backend_error", backend |-> name, text |-> text,
     available |-> {}]

(* f"Backend '{backend}' is not available. Available backends: {names}",   *)
(* names being the sorted, comma-joined set `available`.                   *)
NotAvailable(backend, available) ==
    [kind |-> "not_available", backend |-> backend,
     text |-> "is not available. Available backends:",
     available |-> available]

(* An error outcome whose total counts the entries of errors. *)
ErrorOutcomeCountingErrors(error, errors) ==
    [results |-> <<>>, total |-> Len(errors), error |-> error,
     errors |-> errors]

ErrorOutcome(error, errors) ==
    [results |-> <<>>, total |-> 0, error |-> error, errors |-> errors]

FoundOutcome(results, name) ==
    [results |-> results, total |-> Len(results), backend_used |-> name]

(* ---------------------------------------------------------------------- *)
(* search_companies.get_cost_value and list.sort(key=...), a stable sort.  *)
(* ---------------------------------------------------------------------- *)
GetCostValue(status, fetch) ==
    IF "request_cost" \notin DOMAIN status THEN 0
    ELSE LET cost == status.request_cost
         IN  IF cost.kind = "free" THEN 0
             ELSE IF cost.kind = "number" THEN cost.amount
             ELSE 999

RECURSIVE InsertByCost(_, _, _)
InsertByCost(sorted, s, fetch) ==
    IF sorted = <<>> THEN <<s>>
    ELSE IF GetCostValue(s, fetch) < GetCostValue(Head(sorted), fetch)
         THEN <<s>> \o sorted
         ELSE <<Head(sorted)>> \o InsertByCost(Tail(sorted), s, fetch)

RECURSIVE SortFrom(_, _, _, _)
SortFrom(statuses, i, sorted, fetch) ==
    IF i > Len(statuses) THEN sorted
    ELSE SortFrom(statuses, i + 1, InsertByCost(sorted, statuses[i], fetch),
                  fetch)

SortByCost(statuses, fetch) == SortFrom(statuses, 1, <<>>, fetch)

(* ---------------------------------------------------------------------- *)
(* One backend operation: search_by_name, get_documents or get_events.     *)
(* An operation the class does not define itself raises                    *)
(* (FrenchBaseBackend's NotImplementedError, or AttributeError for         *)
(* get_events, which no base class has); otherwise the answer is the       *)
(* remote registry's.                                                      *)
(* ---------------------------------------------------------------------- *)
OneResult(name) == <<[denomination |-> "acme", backend_name |-> name]>>

(* INSEEBackend.search_by_name catches RequestException, ValueError and    *)
(* KeyError around its HTTP call and returns [].                           *)
SwallowsRequestErrors(cls) == cls.name = "insee"

CallBackend(cls, fetch, answer) ==
    IF fetch \notin cls.implements
    THEN [exc |-> IF fetch = "events" THEN "AttributeError"
                  ELSE "NotImplementedError",
          results |-> <<>>]
    ELSE IF answer = "raises" /\ SwallowsRequestErrors(cls)
    THEN [exc |-> "none", results |-> <<>>]
    ELSE IF answer = "raises" THEN [exc |-> "Timeout", results |-> <<>>]
    ELSE IF answer = "one" THEN [exc |-> "none", results |-> OneResult(cls.name)]
    ELSE [exc |-> "none", results |-> <<>>]

(* ---------------------------------------------------------------------- *)
(* The fallback loop of search_companies over the sorted statuses.         *)
(* ctx holds the call's registry, configuration, remote answers and fetch; *)
(* acc the errors, constructions and invocations so far.                   *)
(* ---------------------------------------------------------------------- *)
RECURSIVE TryBackends(_, _, _, _)
TryBackends(statuses, i, acc, ctx) ==
    IF i > Len(statuses)
    THEN [exc |-> "none",
          outcome |-> ErrorOutcome(
              "No results found from any backend",
              IF acc.errors # <<>> THEN acc.errors
              ELSE <<Message("All backends failed to return results")>>),
          constructed |-> acc.constructed, invoked |-> acc.invoked]
    ELSE LET status == statuses[i]
             backend_name == StatusGet(status, "name", None)
         IN  IF \/ backend_name = None
                \/ backend_name = ""
                \/ ~StatusGet(status, "is_available", FALSE)
             THEN TryBackends(statuses, i + 1, acc, ctx)
             ELSE IF ~Contains(ctx.reg, backend_name)
             THEN TryBackends(statuses, i + 1, acc, ctx)
             ELSE LET inst == NewBackend(ClassOf(backend_name), ctx.cfg)
                      built == Append(acc.constructed, backend_name)
                  IN  IF inst.exc # "none"
                      THEN [exc |-> inst.exc, outcome |-> NoOutcome,
                            constructed |-> built, invoked |-> acc.invoked]
                      ELSE IF ctx.fetch \notin Fetches
                      THEN TryBackends(statuses, i + 1,
                                       [acc EXCEPT !.constructed = built], ctx)
                      ELSE LET r == CallBackend(inst.cls, ctx.fetch,
                                                ctx.rem[backend_name])
                               called == Append(acc.invoked, backend_name)
                           IN  IF r.exc # "none"
                               THEN TryBackends(statuses, i + 1,
                                       [errors |-> Append(acc.errors,
                                            BackendError(backend_name, r.exc)),
                                        constructed |-> built,
                                        invoked |-> called], ctx)
                               ELSE IF r.results # <<>>
                               THEN [exc |-> "none",
                                     outcome |-> FoundOutcome(r.results,
                                                              backend_name),
                                     constructed |-> built, invoked |-> called]
                               ELSE TryBackends(statuses, i + 1,
                                       [errors |-> acc.errors,
                                        constructed |-> built,
                                        invoked |-> called], ctx)

(* ---------------------------------------------------------------------- *)
(* search_companies.  A query is a value with its Python type.             *)
(* ---------------------------------------------------------------------- *)
Truthy(q) ==
    CASE q.type = "str" -> q.text # ""
      [] q.type = "int" -> q.text # "0"
      [] OTHER -> FALSE

(* InvalidQuery without the isinstance(query, str) test. *)
InvalidQueryTypeUnchecked(q) == ~Truthy(q)

InvalidQuery(q) == ~Truthy(q) \/ q.type # "str"

SearchFilters(country_code, fetch) ==
    [country_code |-> country_code,
     can_fetch_company_data |-> IF fetch = "data" THEN {TRUE} ELSE {},
     can_fetch_documents |-> IF fetch = "documents" THEN {TRUE} ELSE {},
     can_fetch_events |-> IF fetch = "events" THEN {TRUE} ELSE {}]

StatusNames(statuses) ==
    [i \in 1..Len(statuses) |-> statuses[i].backend_name]

CallResult(exc, out, built, judged, cands, called) ==
    [exc |-> exc, outcome |-> out, constructed |-> built,
     evaluated |-> judged, candidates |-> cands, invoked |-> called]

SearchCompaniesCall(reg, cfg, pkgs, rem, query, country_code, backend, fetch) ==
    IF InvalidQuery(query)
    THEN CallResult("none",
                  ErrorOutcome("Empty or invalid query",
                               <<Message("Query string is required")>>),
                  <<>>, <<>>, <<>>, <<>>)
    ELSE
    LET first == GetBackends(reg, cfg, pkgs,
                             SearchFilters(country_code, fetch))
        Named(s) == Lower(StatusGet(s, "name", "")) = Lower(backend)
        backend_statuses == IF backend # None
                            THEN SelectSeq(first.statuses, Named)
                            ELSE first.statuses
    IN  IF first.exc # "none"
        THEN CallResult(first.exc, NoOutcome, first.constructed,
                      first.evaluated, <<>>, <<>>)
        ELSE IF backend # None /\ backend_statuses = <<>>
        THEN LET again == GetBackends(reg, cfg, pkgs, NoFilters)
                 available == {StatusGet(again.statuses[i], "name", "unknown") :
                                  i \in 1..Len(again.statuses)}
             IN  CallResult(again.exc,
                          IF again.exc # "none" THEN NoOutcome
                          ELSE ErrorOutcome("Backend not found",
                                   <<NotAvailable(backend, available)>>),
                          first.constructed \o again.constructed,
                          first.evaluated \o again.evaluated, <<>>, <<>>)
        ELSE IF backend_statuses = <<>>
        THEN CallResult("none",
                      ErrorOutcome("No working backends found",
                          <<Message("No backends are properly configured")>>),
                      first.constructed, first.evaluated, <<>>, <<>>)
        ELSE LET sorted == SortByCost(backend_statuses, fetch)
                 loop == TryBackends(sorted, 1,
                             [errors |-> <<>>, constructed |-> <<>>,
                              invoked |-> <<>>],
                             [reg |-> reg, cfg |-> cfg, rem |-> rem,
                              fetch |-> fetch])
             IN  CallResult(loop.exc, loop.outcome,
                          first.constructed \o loop.constructed,
                          first.evaluated, StatusNames(sorted), loop.invoked)

(* ---------------------------------------------------------------------- *)
(* The state machine: a process holds a registry, a configuration, the     *)
(* installed packages and the remote registries' answers; it calls         *)
(* search_companies and takes the result.                                  *)
(* ---------------------------------------------------------------------- *)
Queries ==
    {[type |-> "str", text |-> "acme"], [type |-> "str", text |-> ""],
     [type |-> "int", text |-> "42"]}

CountryCodes == {None, "fr"}

Configs == {{}, {"api_key"}, {"api_key", "base_url"}}

BackendFilters == {None, "Open", "doesnotexist"}

FetchValues == Fetches \cup {"other"}

NoArgs == [query |-> [type |-> "none", text |-> "None"], country_code |-> None,
           backend |-> None, fetch |-> "data"]

(* No instance constructed yet. *)
NoInstance == [exc |-> "unbuilt"]

NoCall == [op |-> "none"]

NoBackend ==
    /\ instance = NoInstance
    /\ environ = {}
    /\ history = <<>>
    /\ opresult = NoCall

NoIdentifier ==
    /\ identifier = <<>>
    /\ idresult = NoCall

(* No mapping allocated, nothing run on the command line, the client or a  *)
(* provider.                                                               *)
NoConfigObjects ==
    /\ heap = <<>>
    /\ holder = NoInstance

NoRest ==
    /\ NoConfigObjects
    /\ cli = NoCall
    /\ client = NoCall
    /\ provider = NoCall
    /\ inpi = NoCall

Init ==
    /\ NoRest
    /\ NoBackend
    /\ NoIdentifier
    /\ registry \in Registries
    /\ config \in Configs
    /\ installed \in SUBSET Packages
    /\ remote \in [Range(registry) -> Responses]
    /\ pc = "idle"
    /\ args = NoArgs
    /\ outcome = NoOutcome
    /\ raised = "none"
    /\ constructed = <<>>
    /\ evaluated = <<>>
    /\ candidates = <<>>
    /\ invoked = <<>>

SearchCompanies(query, country_code, backend, fetch) ==
    /\ pc = "idle"
    /\ \E r \in {SearchCompaniesCall(registry, config, installed, remote,
                                      query, country_code, backend, fetch)} :
           /\ outcome' = r.outcome
           /\ raised' = r.exc
           /\ constructed' = r.constructed
           /\ evaluated' = r.evaluated
           /\ candidates' = r.candidates
           /\ invoked' = r.invoked
    /\ args' = [query |-> query, country_code |-> country_code,
                backend |-> backend, fetch |-> fetch]
    /\ pc' = "done"
    /\ UNCHANGED <<registry, config, installed, remote>>
    /\ UNCHANGED <<backendVars, identVars, restVars>>

(* The caller has read the result; the process may search again. *)
Finish ==
    /\ pc = "done"
    /\ pc' = "idle"
    /\ args' = NoArgs
    /\ outcome' = NoOutcome
    /\ raised' = "none"
    /\ constructed' = <<>>
    /\ evaluated' = <<>>
    /\ candidates' = <<>>
    /\ invoked' = <<>>
    /\ UNCHANGED <<registry, config, installed, remote>>
    /\ UNCHANGED <<backendVars, identVars, restVars>>

Next ==
    \/ \E q \in Queries, c \in CountryCodes, b \in BackendFilters,
          f \in FetchValues : SearchCompanies(q, c, b, f)
    \/ Finish

Spec == Init /\ [][Next]_vars

(* ====================================================================== *)
(* What the specification expects of a call, in terms of the descriptors.  *)
(* ====================================================================== *)
Returned == pc = "done" /\ raised = "none"

(* An empty query, or a query that is no string. *)
EmptyOrNotString(q) == q.type # "str" \/ q.text = ""

ValidCall ==
    pc = "done" /\ ~EmptyOrNotString(args.query) /\ args.fetch \in Fetches

(* A backend has what it requires. *)
Available(n) ==
    /\ Range(ClassOf(n).config_keys) \subseteq config
    /\ Range(ClassOf(n).required_packages) \subseteq installed

(* A registered backend that passes every filter of the call. *)
Eligible(n) ==
    /\ n \in Range(registry)
    /\ args.fetch \in ClassOf(n).caps
    /\ Available(n)
    /\ args.country_code # None =>
           Upper(ClassOf(n).country_code) = Upper(args.country_code)
    /\ args.backend # None => Lower(n) = Lower(args.backend)

(* Free before any number, numbers ascending. *)
DeclaredRank(n) ==
    IF ClassOf(n).request_cost.kind = "free" THEN -1
    ELSE ClassOf(n).request_cost.amount

Before(a, b) ==
    \/ DeclaredRank(a) < DeclaredRank(b)
    \/ /\ DeclaredRank(a) = DeclaredRank(b)
       /\ IndexOf(registry, a) < IndexOf(registry, b)

(* The eligible backends in cost order, registry order among equal costs. *)
ExpectedOrder ==
    LET elig == {n \in Range(registry) : Eligible(n)}
    IN  CHOOSE s \in [1..Cardinality(elig) -> elig] :
            \A i, j \in 1..Cardinality(elig) : i < j => Before(s[i], s[j])

(* What the operation of backend n does when the call invokes it. *)
Answer(n) == CallBackend(ClassOf(n), args.fetch, remote[n])

Hit(order, k) ==
    /\ k \in 1..Len(order)
    /\ Answer(order[k]).exc = "none"
    /\ Answer(order[k]).results # <<>>
    /\ \A i \in 1..(k - 1) :
           Answer(order[i]).exc # "none" \/ Answer(order[i]).results = <<>>

(* ====================================================================== *)
(* Claims.                                                                 *)
(* ====================================================================== *)

(* C1: the candidates are invoked one at a time in the sorted order, and   *)
(* the first one whose call returns a non-empty result ends the search:    *)
(* backend_used is its name, results its output, total the number of       *)
(* results, and no candidate after it is invoked.                          *)
C1_FirstNonEmptyWins ==
    (ValidCall /\ Returned /\ \E k \in 1..Len(ExpectedOrder) :
                                 Hit(ExpectedOrder, k))
    => LET k == CHOOSE i \in 1..Len(ExpectedOrder) : Hit(ExpectedOrder, i)
           winner == ExpectedOrder[k]
       IN  /\ "backend_used" \in DOMAIN outcome
           /\ outcome.backend_used = winner
           /\ outcome.results = Answer(winner).results
           /\ outcome.total = Len(outcome.results)
           /\ invoked = SubSeq(ExpectedOrder, 1, k)

(* C2: when the operation of a candidate raises, the exception is caught,  *)
(* "<backend name>: <message>" is appended to the errors list and the next *)
(* candidate in order is still invoked.                                    *)
C2_ExceptionRecordedAndSkipped ==
    (ValidCall /\ Returned)
    => \A k \in 1..Len(ExpectedOrder) :
           (/\ Answer(ExpectedOrder[k]).exc # "none"
            /\ ~\E h \in 1..(k - 1) : Hit(ExpectedOrder, h))
           => /\ Contains(invoked, ExpectedOrder[k])
              /\ k < Len(ExpectedOrder) =>
                     Contains(invoked, ExpectedOrder[k + 1])
              /\ "error" \in DOMAIN outcome =>
                     Contains(outcome.errors,
                              BackendError(ExpectedOrder[k],
                                           Answer(ExpectedOrder[k]).exc))

(* C3: a search_companies call always returns an outcome mapping; no       *)
(* exception reaches its caller, whatever the registered backends do.      *)
C3_NeverRaises ==
    pc = "done" => /\ raised = "none"
                   /\ "results" \in DOMAIN outcome

(* C4: the order search_companies uses for the requested capability puts   *)
(* free backends before backends with a numeric cost, numeric costs        *)
(* ascending, registry order among equal costs: [B(5), A(free), C(free)]   *)
(* is tried as [A, C, B].                                                  *)
C4_CostOrder ==
    (ValidCall /\ Returned)
    => SelectSeq(candidates, Eligible) = ExpectedOrder

(* C5: a backend whose descriptor does not declare the requested           *)
(* capability is never among the statuses a search iterates over and its   *)
(* operation is never invoked, even when it is available.                  *)
C5_CapabilityFilter ==
    (pc = "done" /\ args.fetch \in Fetches)
    => \A n \in Range(candidates) \cup Range(invoked) :
           args.fetch \in ClassOf(n).caps

C5_Witness ==
    /\ ValidCall /\ Returned
    /\ args.fetch = "documents"
    /\ Contains(evaluated, "open")
    /\ "documents" \notin ClassOf("open").caps
    /\ Available("open")
    /\ ~Contains(candidates, "open")
    /\ ~Contains(invoked, "open")

(* C6: every registered backend that declares the requested capability,    *)
(* is available and matches the country and backend filters is a           *)
(* candidate, and is invoked unless a candidate before it returned a       *)
(* non-empty result.                                                       *)
C6_EligibleIsTried ==
    (ValidCall /\ Returned)
    => \A k \in 1..Len(ExpectedOrder) :
           /\ Contains(candidates, ExpectedOrder[k])
           /\ (~\E h \in 1..(k - 1) : Hit(ExpectedOrder, h))
                  => Contains(invoked, ExpectedOrder[k])

(* C7: a backend name that matches no registered backend gives at once an  *)
(* error outcome (empty results, total 0), no backend operation is         *)
(* invoked, and the message in errors lists every registered backend name. *)
C7_UnknownBackendListsNames ==
    (/\ ValidCall /\ Returned
     /\ args.backend # None
     /\ \A n \in Range(registry) : Lower(n) # Lower(args.backend))
    => /\ "error" \in DOMAIN outcome
       /\ outcome.results = <<>>
       /\ outcome.total = 0
       /\ invoked = <<>>
       /\ \E i \in 1..Len(outcome.errors) :
              Range(registry) \subseteq outcome.errors[i].available

(* C8: an empty or non-string query gives an error outcome (empty results, *)
(* total 0, error set) at once: no backend is constructed, evaluated for   *)
(* availability or invoked.                                                *)
C8_InvalidQueryRejected ==
    (pc = "done" /\ EmptyOrNotString(args.query))
    => /\ raised = "none"
       /\ "error" \in DOMAIN outcome
       /\ outcome.results = <<>>
       /\ outcome.total = 0
       /\ constructed = <<>>
       /\ evaluated = <<>>
       /\ invoked = <<>>

C8_Witness ==
    /\ pc = "done"
    /\ args.query.type = "int"
    /\ "error" \in DOMAIN outcome
    /\ \E n \in Range(registry) : Available(n) /\ args.fetch \in ClassOf(n).caps

(* C9: when a search ends without invoking any backend because every       *)
(* backend was filtered out or unavailable, the errors list is empty and   *)
(* the error message says that no backend was available.                   *)
C9_NothingToTry ==
    (/\ ValidCall /\ Returned
     /\ args.backend = None
     /\ ExpectedOrder = <<>>
     /\ invoked = <<>>)
    => /\ "error" \in DOMAIN outcome
       /\ outcome.error = "No working backends found"
       /\ outcome.errors = <<>>

(* The entries the candidates that raise leave in errors, in order. *)
ExpectedErrors ==
    LET Raises(n) == Answer(n).exc # "none"
        failed == SelectSeq(ExpectedOrder, Raises)
    IN  [i \in 1..Len(failed) |-> BackendError(failed[i], Answer(failed[i]).exc)]

(* C10: when every candidate is exhausted without a non-empty result the   *)
(* outcome has empty results, total 0, an error summary, and errors holds  *)
(* exactly one entry per invoked backend that raised, in invocation order; *)
(* an empty result adds no entry.                                          *)
C10_Exhausted ==
    (/\ ValidCall /\ Returned
     /\ ExpectedOrder # <<>>
     /\ ~\E k \in 1..Len(ExpectedOrder) : Hit(ExpectedOrder, k))
    => /\ "error" \in DOMAIN outcome
       /\ outcome.results = <<>>
       /\ outcome.total = 0
       /\ outcome.errors = ExpectedErrors

TailLen == 3

(* Longest input enumerated over the whole alphabet. *)
MaxShort == 3

DigitChars == <<"0", "1", "2", "3", "4", "5", "6", "7", "8", "9">>

Digits == Range(DigitChars)

(* int(digit) *)
DigitValue(c) == (CHOOSE i \in 1..Len(DigitChars) : DigitChars[i] = c) - 1

(* The characters r'[\s-]' matches. *)
Separators == {" ", "-"}

(* str.upper(), character by character. *)
UpperChar(c) ==
    CASE c = "w" -> "W"
      [] c = "a" -> "A"
      [] OTHER -> c

UpperString(s) == [i \in 1..Len(s) |-> UpperChar(s[i])]

(* re.sub(r'[\s-]', '', s) *)
StripSeparators(s) ==
    LET Kept(c) == c \notin Separators
    IN  SelectSeq(s, Kept)

(* re.sub(r'[^\d]', '', s) *)
OnlyDigits(s) ==
    LET Kept(c) == c \in Digits
    IN  SelectSeq(s, Kept)

AllDigits(s) == \A i \in 1..Len(s) : s[i] \in Digits

(* One round of the loop of _luhn_check, without the reduction by 9. *)
LuhnTermUnreduced(i, n) == IF i % 2 = 1 THEN n * 2 ELSE n

(* One round of the loop of _luhn_check: digit n at index i from the right. *)
LuhnTerm(i, n) ==
    IF i % 2 = 1
    THEN IF n * 2 > 9 THEN n * 2 - 9 ELSE n * 2
    ELSE n

RECURSIVE LuhnTotal(_, _)
LuhnTotal(number, i) ==
    IF i >= Len(number) THEN 0
    ELSE LuhnTerm(i, DigitValue(number[Len(number) - i]))
         + LuhnTotal(number, i + 1)

LuhnCheck(number) ==
    IF Len(number) # 9 THEN FALSE
    ELSE LuhnTotal(number, 0) % 10 = 0

ValidateSiren(siren) ==
    IF siren = <<>> THEN FALSE
    ELSE LET siren_clean == StripSeparators(siren)
         IN  IF ~(Len(siren_clean) = 9 /\ AllDigits(siren_clean)) THEN FALSE
             ELSE LuhnCheck(siren_clean)

FormatSiren(siren) ==
    IF siren = <<>> THEN <<>>
    ELSE LET siren_clean == StripSeparators(siren)
         IN  IF Len(siren_clean) >= 9 THEN SubSeq(siren_clean, 1, 9)
             ELSE siren_clean

ValidateRna(rna) ==
    IF rna = <<>> THEN FALSE
    ELSE LET rna_clean == StripSeparators(UpperString(rna))
         IN  /\ Len(rna_clean) = 9
             /\ rna_clean[1] = "W"
             /\ AllDigits(Tail(rna_clean))

(* format_rna adding the W prefix to eight digits or more. *)
FormatRnaPrefixingLonger(rna) ==
    IF rna = <<>> THEN <<>>
    ELSE LET rna_clean == StripSeparators(UpperString(rna))
             digits == OnlyDigits(rna_clean)
         IN  IF rna_clean # <<>> /\ rna_clean[1] = "W"
             THEN IF Len(rna_clean) >= 9 THEN SubSeq(rna_clean, 1, 9)
                  ELSE rna_clean
             ELSE IF Len(digits) >= 8 THEN <<"W">> \o digits
             ELSE rna_clean

FormatRna(rna) ==
    IF rna = <<>> THEN <<>>
    ELSE LET rna_clean == StripSeparators(UpperString(rna))
             digits == OnlyDigits(rna_clean)
         IN  IF rna_clean # <<>> /\ rna_clean[1] = "W"
             THEN IF Len(rna_clean) >= 9 THEN SubSeq(rna_clean, 1, 9)
                  ELSE rna_clean
             ELSE IF Len(digits) = 8 THEN <<"W">> \o digits
             ELSE rna_clean

DetectIdentifierType(ident) ==
    LET identifier_clean == StripSeparators(UpperString(ident))
    IN  IF ValidateSiren(identifier_clean) THEN "siren"
        ELSE IF ValidateRna(identifier_clean) THEN "rna"
        ELSE None

(* INSEEBackend._get_search_type; it reads nothing of the instance. *)
GetSearchType(query) ==
    IF ValidateSiren(query) THEN "siren"
    ELSE IF ValidateRna(query) THEN "rna"
    ELSE LET siret_clean == StripSeparators(query)
         IN  IF Len(siret_clean) = 14 /\ AllDigits(siret_clean) THEN "siret"
             ELSE "text"

(* ---------------------------------------------------------------------- *)
(* The identifiers a caller passes, and the calls of the functions.        *)
(* ---------------------------------------------------------------------- *)
BaseSiren == <<"7", "3", "2", "8", "2", "9", "3", "2", "0">>

(* Nine digits: the last TailLen of them take every value. *)
NineDigits ==
    {SubSeq(BaseSiren, 1, 9 - TailLen) \o t : t \in [1..TailLen -> Digits]}

(* Nine or eight digits, each a digit whose double is below or above 9. *)
LowHighNine == [1..9 -> {"1", "8"}]

LowHighEight == [1..8 -> {"1", "8"}]

ShortStrings ==
    UNION {[1..n -> {"1", "8", " ", "-", "W", "w", "A"}] : n \in 0..MaxShort}

SiretTail == <<"0", "0", "0", "7", "4">>

Samples ==
    {BaseSiren,
     SubSeq(BaseSiren, 1, 8) \o <<"1">>,
     BaseSiren \o SiretTail,
     BaseSiren \o <<"5">>,
     <<"W">> \o SubSeq(BaseSiren, 1, 8),
     <<"w">> \o SubSeq(BaseSiren, 1, 8),
     <<"A">> \o SubSeq(BaseSiren, 1, 8),
     <<"W">> \o BaseSiren,
     SubSeq(BaseSiren, 1, 8)}

Insert(s, p, c) == SubSeq(s, 1, p) \o <<c>> \o SubSeq(s, p + 1, Len(s))

Decorated ==
    UNION {{Insert(s, p, c) : p \in 0..Len(s), c \in Separators} :
              s \in Samples}

Prefixed ==
    {pre \o t : pre \in {<<"W">>, <<"w">>, <<"A">>, <<"W", " ">>},
                t \in LowHighEight \cup LowHighNine}

Identifiers ==
    NineDigits \cup LowHighNine \cup LowHighEight \cup ShortStrings
    \cup Samples \cup Decorated \cup Prefixed
    \cup {t \o SiretTail : t \in LowHighNine}

Called(op, arg, value, round) ==
    [op |-> op, arg |-> arg, value |-> value, round |-> round]

ValidateSirenCall ==
    /\ idresult' = Called("validate_siren", identifier,
                          ValidateSiren(identifier), 1)
    /\ UNCHANGED <<identifier, config, installed, searchVars, backendVars,
                 restVars>>

FormatSirenCall ==
    /\ idresult' = Called("format_siren", identifier,
                          FormatSiren(identifier), 1)
    /\ UNCHANGED <<identifier, config, installed, searchVars, backendVars,
                 restVars>>

FormatRnaCall ==
    /\ idresult' = Called("format_rna", identifier, FormatRna(identifier), 1)
    /\ UNCHANGED <<identifier, config, installed, searchVars, backendVars,
                 restVars>>

(* The caller formats again what the last format call returned. *)
FormatAgain ==
    /\ idresult.op \in {"format_siren", "format_rna"}
    /\ idresult.round = 1
    /\ idresult' = Called(idresult.op, idresult.value,
                          IF idresult.op = "format_siren"
                          THEN FormatSiren(idresult.value)
                          ELSE FormatRna(idresult.value), 2)
    /\ UNCHANGED <<identifier, config, installed, searchVars, backendVars,
                 restVars>>

DetectIdentifierTypeCall ==
    /\ idresult' = Called("detect_identifier_type", identifier,
                          DetectIdentifierType(identifier), 1)
    /\ UNCHANGED <<identifier, config, installed, searchVars, backendVars,
                 restVars>>

GetSearchTypeCall ==
    /\ idresult' = Called("_get_search_type", identifier,
                          GetSearchType(identifier), 1)
    /\ UNCHANGED <<identifier, config, installed, searchVars, backendVars,
                 restVars>>

IdentifierInit ==
    /\ NoRest
    /\ NoBackend
    /\ registry = <<>>
    /\ remote = <<>>
    /\ pc = "idle"
    /\ args = NoArgs
    /\ outcome = NoOutcome
    /\ raised = "none"
    /\ constructed = <<>>
    /\ evaluated = <<>>
    /\ candidates = <<>>
    /\ invoked = <<>>
    /\ config = {}
    /\ installed = {}
    /\ identifier \in Identifiers
    /\ idresult = NoCall

IdentifierNext ==
    \/ ValidateSirenCall
    \/ FormatSirenCall
    \/ FormatRnaCall
    \/ FormatAgain
    \/ DetectIdentifierTypeCall
    \/ GetSearchTypeCall

IdentifierSpec == IdentifierInit /\ [][IdentifierNext]_vars

(* ---------------------------------------------------------------------- *)
(* Claims on the identifier functions.                                     *)
(* ---------------------------------------------------------------------- *)

(* A string without its whitespace and hyphens. *)
Bare(s) ==
    LET NotSeparator(c) == c # " " /\ c # "-"
    IN  SelectSeq(s, NotSeparator)

NineDigitString(s) == Len(s) = 9 /\ \A i \in 1..9 : s[i] \in Digits

Doubled(d) == IF 2 * d > 9 THEN 2 * d - 9 ELSE 2 * d

(* The digits from the right, every second one doubled. *)
WeightedSum(s) ==
    DigitValue(s[9]) + Doubled(DigitValue(s[8])) + DigitValue(s[7])
    + Doubled(DigitValue(s[6])) + DigitValue(s[5])
    + Doubled(DigitValue(s[4])) + DigitValue(s[3])
    + Doubled(DigitValue(s[2])) + DigitValue(s[1])

(* C15: validate_siren of nine digits is true exactly when the sum of the  *)
(* digits taken from the right, every second one doubled and reduced by 9  *)
(* when above 9, is divisible by 10; of anything that is not nine digits   *)
(* once whitespace and hyphens are removed it is false.                    *)
C15_SirenChecksum ==
    idresult.op = "validate_siren"
    => IF NineDigitString(Bare(idresult.arg))
       THEN idresult.value <=> (WeightedSum(Bare(idresult.arg)) % 10 = 0)
       ELSE idresult.value = FALSE

C15_Witness ==
    /\ idresult.op = "validate_siren"
    /\ idresult.value = TRUE
    /\ Len(idresult.arg) = 10
    /\ \E i \in {2, 4, 6, 8} : DigitValue(Bare(idresult.arg)[i]) >= 5

(* C16: formatting is idempotent: format_siren of what format_siren        *)
(* returned, and format_rna of what format_rna returned, is that value.    *)
C16_FormatIdempotent ==
    (idresult.op \in {"format_siren", "format_rna"} /\ idresult.round = 2)
    => idresult.value = idresult.arg

C16_Witness ==
    /\ idresult.op = "format_rna"
    /\ idresult.round = 2
    /\ idresult.arg # identifier
    /\ idresult.arg = <<"W">> \o identifier
    /\ idresult.value = idresult.arg

(* Kind of an identifier: SIREN (nine digits passing the checksum), then   *)
(* SIRET (fourteen digits), then RNA (W and eight digits), else unknown.   *)
ExpectedKind(s) ==
    LET c == UpperString(Bare(s))
    IN  IF NineDigitString(c) /\ WeightedSum(c) % 10 = 0 THEN "siren"
        ELSE IF Len(c) = 14 /\ \A i \in 1..14 : c[i] \in Digits THEN "siret"
        ELSE IF /\ Len(c) = 9
                /\ c[1] = "W"
                /\ \A i \in 2..9 : c[i] \in Digits THEN "rna"
        ELSE None

(* C17: detection tries SIREN with checksum, then SIRET (fourteen digits), *)
(* then RNA (W and eight digits), and answers unknown when none matches:   *)
(* fourteen digits are a SIRET, nine digits failing the checksum unknown.  *)
C17_DetectionOrder ==
    idresult.op = "detect_identifier_type"
    => idresult.value = ExpectedKind(idresult.arg)

(* ====================================================================== *)
(* A backend instance used directly: construction, configure, get_status,  *)
(* validate (backends/base.py).                                            *)
(* ====================================================================== *)

(* Most evaluations of one instance kept between two configure calls. *)
MaxEvaluations == 2

(* PappersBackend and INPIBackend declare no can_fetch_* attribute and no  *)
(* request_cost; both define search_by_name, search_by_code and            *)
(* get_documents themselves.                                               *)
PappersBackend ==
    [name |-> "pappers", country_code |-> "FR", continent |-> None,
     caps |-> {}, request_cost |-> Free,
     config_keys |-> <<"api_key">>, required_packages |-> <<"requests">>,
     init |-> "plain", implements |-> {"data", "documents"}]

INPIBackend ==
    [name |-> "inpi", country_code |-> "FR", continent |-> None,
     caps |-> {}, request_cost |-> Free,
     config_keys |-> <<"api_key", "username", "password">>,
     required_packages |-> <<"requests">>,
     init |-> "plain", implements |-> {"data", "documents"}]

(* The classes a caller instantiates directly. *)
InstanceClasses == {INSEEBackend, BODACCBackend, PappersBackend, INPIBackend}

(* The environment variable PREFIX_<BACKEND_NAME>_<KEY>. *)
EnvVar(name, key) == [backend |-> name, key |-> key]

EnvVars == {EnvVar("bodacc", "api_key"), EnvVar("pappers", "api_key")}

(* BaseBackend.configure: merge into, or replace, the raw configuration. *)
Configured(inst, cfg, replace) ==
    LET raw == IF replace THEN cfg ELSE inst.raw_config \cup cfg
    IN  [inst EXCEPT !.raw_config = raw, !.config = FilterConfig(inst.cls, raw)]

(* BaseBackend.validate: (is_valid, message). *)
Validate(inst, pkgs) ==
    LET missing_packages == MissingPackages(inst, pkgs)
        missing_config == MissingConfig(inst)
    IN  IF missing_packages # <<>>
        THEN [ok |-> FALSE, message |-> "Missing required packages",
              missing |-> missing_packages]
        ELSE IF missing_config # <<>>
        THEN [ok |-> FALSE, message |-> "Missing required configuration keys",
              missing |-> missing_config]
        ELSE [ok |-> TRUE, message |-> "", missing |-> <<>>]

Built == instance # NoInstance

(* cls(config=config): the caller keeps the instance when __init__ returns. *)
Construct(cls) ==
    /\ ~Built
    /\ LET inst == NewBackend(cls, config)
       IN  /\ instance' = IF inst.exc = "none" THEN inst ELSE NoInstance
           /\ opresult' = [op |-> "construct", cls |-> cls.name,
                           exc |-> inst.exc]
    /\ history' = <<>>
    /\ UNCHANGED <<environ, config, installed, searchVars, identVars, restVars>>

Configure(cfg, replace) ==
    /\ Built
    /\ instance' = Configured(instance, cfg, replace)
    /\ history' = <<>>
    /\ opresult' = [op |-> "configure", cls |-> instance.cls.name,
                    exc |-> "none"]
    /\ UNCHANGED <<environ, config, installed, searchVars, identVars, restVars>>

(* get_status that also stores the declared keys it found missing. *)
GetStatusCallFillingConfig ==
    /\ Built
    /\ Len(history) < MaxEvaluations
    /\ history' = Append(history, [op |-> "get_status",
                                   value |-> GetStatus(instance, installed)])
    /\ instance' = Configured(instance, Range(instance.cls.config_keys), FALSE)
    /\ UNCHANGED <<opresult, environ, config, installed, searchVars, identVars,
                   restVars>>

(* instance.get_status() *)
GetStatusCall ==
    /\ Built
    /\ Len(history) < MaxEvaluations
    /\ history' = Append(history, [op |-> "get_status",
                                   value |-> GetStatus(instance, installed)])
    /\ UNCHANGED <<instance, opresult, environ, config, installed,
                   searchVars, identVars, restVars>>

(* instance.validate() *)
ValidateCall ==
    /\ Built
    /\ Len(history) < MaxEvaluations
    /\ history' = Append(history, [op |-> "validate",
                                   value |-> Validate(instance, installed)])
    /\ UNCHANGED <<instance, opresult, environ, config, installed,
                   searchVars, identVars, restVars>>

(* The caller drops the instance. *)
Discard ==
    /\ Built
    /\ instance' = NoInstance
    /\ history' = <<>>
    /\ opresult' = NoCall
    /\ UNCHANGED <<environ, config, installed, searchVars, identVars, restVars>>

(* ---------------------------------------------------------------------- *)
(* search_by_code of each class, and the method an instance resolves to.   *)
(* The classes of the package call no remote service here: after the       *)
(* checks they return None.                                                *)
(* ---------------------------------------------------------------------- *)
CodeTypes == {None, "siren", "rna", "siret"}

Codes ==
    {BaseSiren,
     SubSeq(BaseSiren, 1, 8) \o <<"1">>,
     <<"W">> \o SubSeq(BaseSiren, 1, 8)}

Found(value) == [exc |-> "none", value |-> value]

Raised(exc) == [exc |-> exc, value |-> None]

(* FrenchBaseBackend.search_by_code, inherited by BODACCBackend. *)
FrenchBaseSearchByCode(code, code_type) == Raised("NotImplementedError")

PappersSearchByCode(code, code_type) ==
    IF code_type # None /\ code_type # "siren" THEN Raised("ValueError")
    ELSE IF ~ValidateSiren(FormatSiren(code)) THEN Found(None)
    ELSE Found(None)

INSEESearchByCode(code, code_type) ==
    IF code_type # None /\ code_type # "siren" THEN Raised("ValueError")
    ELSE IF ~ValidateSiren(FormatSiren(code)) THEN Found(None)
    ELSE Found(None)

INPISearchByCode(code, code_type) ==
    IF code_type # None /\ code_type # "siren" THEN Found(None)
    ELSE IF ~ValidateSiren(FormatSiren(code)) THEN Found(None)
    ELSE Found(None)

SearchByCode(inst, code, code_type) ==
    CASE inst.cls.name = "pappers" -> PappersSearchByCode(code, code_type)
      [] inst.cls.name = "insee" -> INSEESearchByCode(code, code_type)
      [] inst.cls.name = "inpi" -> INPISearchByCode(code, code_type)
      [] OTHER -> FrenchBaseSearchByCode(code, code_type)

(* instance.search_by_code(code, code_type) *)
SearchByCodeCall(code, code_type) ==
    /\ Built
    /\ LET r == SearchByCode(instance, code, code_type)
       IN  opresult' = [op |-> "search_by_code", cls |-> instance.cls.name,
                        code |-> code, code_type |-> code_type,
                        exc |-> r.exc, value |-> r.value]
    /\ UNCHANGED <<instance, history, environ, config, installed,
                   searchVars, identVars, restVars>>

(* instance.search_by_name / get_documents / get_events, called directly;  *)
(* the classes of the package answer with an empty list.                   *)
OperationCall(fetch) ==
    /\ Built
    /\ LET r == CallBackend(instance.cls, fetch, "empty")
       IN  opresult' = [op |-> "operation", cls |-> instance.cls.name,
                        fetch |-> fetch, exc |-> r.exc,
                        results |-> r.results]
    /\ UNCHANGED <<instance, history, environ, config, installed,
                   searchVars, identVars, restVars>>

BackendInit ==
    /\ NoRest
    /\ NoIdentifier
    /\ registry = <<>>
    /\ remote = <<>>
    /\ pc = "idle"
    /\ args = NoArgs
    /\ outcome = NoOutcome
    /\ raised = "none"
    /\ constructed = <<>>
    /\ evaluated = <<>>
    /\ candidates = <<>>
    /\ invoked = <<>>
    /\ config \in Configs
    /\ installed \in SUBSET Packages
    /\ environ \in SUBSET EnvVars
    /\ instance = NoInstance
    /\ history = <<>>
    /\ opresult = NoCall

BackendNext ==
    \/ \E cls \in InstanceClasses : Construct(cls)
    \/ \E cfg \in Configs, replace \in BOOLEAN : Configure(cfg, replace)
    \/ GetStatusCall
    \/ ValidateCall
    \/ \E code \in Codes, code_type \in CodeTypes :
           SearchByCodeCall(code, code_type)
    \/ \E fetch \in Fetches : OperationCall(fetch)
    \/ Discard

BackendSpec == BackendInit /\ [][BackendNext]_vars

(* ---------------------------------------------------------------------- *)
(* Claims on the availability evaluation.                                  *)
(* ---------------------------------------------------------------------- *)
Statuses ==
    {history[i].value : i \in {j \in 1..Len(history) :
                                  history[j].op = "get_status"}}

RequiredPackages == Range(instance.cls.required_packages)

RequiredKeys == Range(instance.cls.config_keys)

(* C12: get_status reports is_available true exactly when missing_packages *)
(* and missing_config are both empty; missing_packages is exactly the      *)
(* required packages that cannot be imported and missing_config exactly    *)
(* the required configuration keys that are not in the configuration.      *)
C12_AvailableIffNothingMissing ==
    \A st \in Statuses :
        /\ st.is_available
               <=> (st.missing_packages = <<>> /\ st.missing_config = <<>>)
        /\ st.is_available <=> (st.status = "available")
        /\ Range(st.missing_packages) = RequiredPackages \ installed
        /\ Range(st.missing_config) = RequiredKeys \ instance.raw_config

C12_Witness ==
    \E st \in Statuses :
        /\ ~st.is_available
        /\ st.missing_packages = <<>>
        /\ st.missing_config # <<>>
        /\ RequiredKeys \cap instance.raw_config # {}

(* C13: a required configuration key counts as present when it is in the   *)
(* explicit configuration mapping or, failing that, when the environment   *)
(* variable PREFIX_<BACKEND_NAME>_<KEY> is set; missing_config holds only   *)
(* the keys absent from both.                                              *)
C13_EnvironmentFallback ==
    \A st \in Statuses :
        Range(st.missing_config) =
            {k \in RequiredKeys :
                /\ k \notin instance.raw_config
                /\ EnvVar(instance.cls.name, k) \notin environ}

(* C14: get_status and validate leave the raw and the filtered             *)
(* configuration of the instance unchanged, and an evaluation repeated     *)
(* with no configure call in between returns what the earlier one did.     *)
C14_EvaluationIsPure ==
    [][Len(history') > Len(history)
       => /\ instance' = instance
          /\ \A i \in 1..Len(history) :
                 history[i].op = history'[Len(history')].op
                     => history[i].value = history'[Len(history')].value]_vars

C14_Witness ==
    /\ Built
    /\ Len(history) = 2
    /\ history[1].op = "get_status"
    /\ history[2].op = "get_status"
    /\ history[2].value.missing_config # <<>>
    /\ instance.raw_config # instance.config

(* ---------------------------------------------------------------------- *)
(* Claims on the operations of a backend.                                  *)
(* ---------------------------------------------------------------------- *)

(* C18: search_by_code returns null and does not raise when the code is    *)
(* malformed for the backend, when its type is one the backend does not    *)
(* support (rna or siret on a SIREN-only backend) and when nothing is      *)
(* found; no class of the package finds anything.  Stated of the classes   *)
(* that define search_by_code themselves.                                  *)
C18_SearchByCodeReturnsNull ==
    (opresult.op = "search_by_code" /\ opresult.cls # "bodacc")
    => /\ opresult.exc = "none"
       /\ opresult.value = None

(* C19: get_documents or get_events on a backend that does not declare     *)
(* the capability raises, which a caller tells apart from an empty list;   *)
(* on a backend that declares it the call does not raise.                  *)
C19_UndeclaredCapabilityRaises ==
    (opresult.op = "operation" /\ opresult.fetch \in {"documents", "events"})
    => (opresult.exc # "none" <=> opresult.fetch \notin instance.cls.caps)

(* C20: a transport failure of a candidate during search_companies leaves  *)
(* an entry for that backend in errors, and the next candidate is invoked. *)
C20_TransportFailureRecorded ==
    (ValidCall /\ Returned)
    => \A k \in 1..Len(ExpectedOrder) :
           (/\ remote[ExpectedOrder[k]] = "raises"
            /\ args.fetch \in ClassOf(ExpectedOrder[k]).implements
            /\ ~\E h \in 1..(k - 1) : Hit(ExpectedOrder, h))
           => /\ \E i \in 1..Len(outcome.errors) :
                     /\ outcome.errors[i].kind = "backend_error"
                     /\ outcome.errors[i].backend = ExpectedOrder[k]
              /\ k < Len(ExpectedOrder)
                     => Contains(invoked, ExpectedOrder[k + 1])

(* ---------------------------------------------------------------------- *)
(* Claims on one search_companies call as a whole.                         *)
(* ---------------------------------------------------------------------- *)

(* C21: within one search_companies call each backend is invoked at most   *)
(* once: no backend occurs twice among the operations the call invoked.    *)
C21_InvokedAtMostOnce ==
    pc = "done"
    => \A i, j \in 1..Len(invoked) : i # j => invoked[i] # invoked[j]

(* A finished call that invoked a backend whose operation raised or        *)
(* returned nothing.                                                       *)
C21_Retried ==
    /\ pc = "done"
    /\ \E i \in 1..Len(invoked) :
           \/ Answer(invoked[i]).exc # "none"
           \/ Answer(invoked[i]).results = <<>>

(* C29: every outcome search_companies returns has total equal to the      *)
(* length of results and exactly one of two shapes: backend_used with      *)
(* non-empty results and no error, or error with empty results, total 0    *)
(* and no backend_used.                                                    *)
C29_OutcomeShapes ==
    Returned
    => /\ {"results", "total"} \subseteq DOMAIN outcome
       /\ outcome.total = Len(outcome.results)
       /\ \/ /\ "backend_used" \in DOMAIN outcome
             /\ "error" \notin DOMAIN outcome
             /\ outcome.results # <<>>
          \/ /\ "error" \in DOMAIN outcome
             /\ "backend_used" \notin DOMAIN outcome
             /\ outcome.results = <<>>
             /\ outcome.total = 0

C29_Witness ==
    /\ Returned
    /\ args.fetch \notin Fetches
    /\ Len(candidates) > 1
    /\ outcome.error = "No results found from any backend"
    /\ Len(outcome.errors) = 1

(* ====================================================================== *)
(* Configuration mappings as objects (backends/base.py, helpers.py).       *)
(* heap gives the content of each mapping object: "caller" is the mapping  *)
(* a caller passes to a constructor, to get_backends or to                 *)
(* search_companies, "given" the mapping it passes to configure, "raw"     *)
(* and "filtered" the objects behind _raw_config and _config of the        *)
(* instance the caller holds, "scratch_raw" and "scratch_filtered" those   *)
(* of the instances get_all_backends builds.  holder holds the instance:   *)
(* its class, the objects _raw_config and _config refer to, and the last   *)
(* call made on it.                                                        *)
(* ====================================================================== *)
ConfigValues == {"v1", "v2"}

Mappings == UNION {[K -> ConfigValues] : K \in SUBSET ConfigKeys}

Objects ==
    {"caller", "given", "raw", "filtered", "scratch_raw", "scratch_filtered"}

(* dict.update(new) *)
Updated(old, new) ==
    [k \in DOMAIN old \cup DOMAIN new |->
        IF k \in DOMAIN new THEN new[k] ELSE old[k]]

(* `config or {}` kept as it is: a non-empty mapping is shared, not copied. *)
DictShared(h, src, dst) ==
    IF h[src] = <<>>
    THEN [ref |-> dst, heap |-> [h EXCEPT ![dst] = <<>>]]
    ELSE [ref |-> src, heap |-> h]

(* dict(config or {}): a new object dst with the entries of src. *)
DictCopy(h, src, dst) ==
    [ref |-> dst, heap |-> [h EXCEPT ![dst] = h[src]]]

(* BaseBackend._filter_config, on a mapping with its values. *)
FilterConfigMapping(cls, raw) ==
    IF cls.config_keys = <<>> THEN raw
    ELSE [k \in Range(cls.config_keys) \cap DOMAIN raw |-> raw[k]]

(* BaseBackend.__init__(config): src is the object passed. *)
InitBackend(h, cls, src, rawdst, cfgdst) ==
    LET c == DictCopy(h, src, rawdst)
    IN  [cls |-> cls, raw_config |-> c.ref, config |-> cfgdst,
         heap |-> [c.heap EXCEPT
                      ![cfgdst] = FilterConfigMapping(cls, c.heap[c.ref])]]

(* configure that merges also when replace is true. *)
ConfigureMappingMerging(h, inst, src, replace) ==
    LET merged == [h EXCEPT ![inst.raw_config] = Updated(@, h[src])]
    IN  [raw_config |-> inst.raw_config,
         heap |-> [merged EXCEPT
                      ![inst.config] =
                          FilterConfigMapping(inst.cls,
                                              merged[inst.raw_config])]]

(* BaseBackend.configure(config, replace=replace): src is the object       *)
(* passed.                                                                 *)
ConfigureMapping(h, inst, src, replace) ==
    LET c == IF replace THEN DictCopy(h, src, "raw")
             ELSE [ref |-> inst.raw_config,
                   heap |-> [h EXCEPT
                                ![inst.raw_config] = Updated(@, h[src])]]
    IN  [raw_config |-> c.ref,
         heap |-> [c.heap EXCEPT
                      ![inst.config] =
                          FilterConfigMapping(inst.cls, c.heap[c.ref])]]

(* The classes whose instances the caller configures; OpenBackend keeps    *)
(* BaseBackend's empty config_keys.                                        *)
ConfiguredClasses == <<PappersBackend, BODACCBackend, OpenBackend>>

(* get_all_backends(config): every class is constructed on the caller's    *)
(* mapping; get_backends then reads each status.                           *)
RECURSIVE BuildAllOn(_, _, _)
BuildAllOn(h, classes, i) ==
    IF i > Len(classes) THEN h
    ELSE BuildAllOn(InitBackend(h, classes[i], "caller", "scratch_raw",
                                "scratch_filtered").heap,
                    classes, i + 1)

(* check_config_keys on the instance's raw configuration. *)
MissingConfigKeys(h, inst) ==
    {k \in Range(inst.cls.config_keys) : k \notin DOMAIN h[inst.raw_config]}

Held == holder # NoInstance

(* cls(config=caller) *)
ConstructWith(cls) ==
    /\ ~Held
    /\ \E r \in {InitBackend(heap, cls, "caller", "raw", "filtered")} :
           /\ heap' = r.heap
           /\ holder' = [cls |-> r.cls, raw_config |-> r.raw_config,
                         config |-> r.config,
                         last |-> [op |-> "construct"]]
    /\ UNCHANGED <<searchVars, backendVars, identVars, config, installed,
                   cli, client, provider, inpi>>

(* The caller builds the mapping cfg and calls                             *)
(* instance.configure(cfg, replace=replace).                               *)
ConfigureWith(cfg, replace) ==
    /\ Held
    /\ \E r \in {ConfigureMapping([heap EXCEPT !["given"] = cfg], holder,
                                  "given", replace)} :
           /\ heap' = r.heap
           /\ holder' = [holder EXCEPT
                            !.raw_config = r.raw_config,
                            !.last = [op |-> "configure", given |-> cfg,
                                      replace |-> replace,
                                      before |-> heap[holder.raw_config]]]
    /\ UNCHANGED <<searchVars, backendVars, identVars, config, installed,
                   cli, client, provider, inpi>>

(* instance.get_status() *)
GetStatusOf ==
    /\ Held
    /\ holder' = [holder EXCEPT
                     !.last = [op |-> "get_status",
                               missing_config |->
                                   MissingConfigKeys(heap, holder)]]
    /\ UNCHANGED <<heap, searchVars, backendVars, identVars, config,
                   installed, cli, client, provider, inpi>>

(* get_backends(config=caller) or search_companies(query, config=caller). *)
GetAllBackendsWith ==
    /\ heap' = BuildAllOn(heap, ConfiguredClasses, 1)
    /\ UNCHANGED <<holder, searchVars, backendVars, identVars, config,
                   installed, cli, client, provider, inpi>>

(* The caller drops the instance. *)
Release ==
    /\ Held
    /\ holder' = NoInstance
    /\ UNCHANGED <<heap, searchVars, backendVars, identVars, config,
                   installed, cli, client, provider, inpi>>

(* No search running: the variables of Spec at rest. *)
NoSearch ==
    /\ registry = <<>>
    /\ remote = <<>>
    /\ pc = "idle"
    /\ args = NoArgs
    /\ outcome = NoOutcome
    /\ raised = "none"
    /\ constructed = <<>>
    /\ evaluated = <<>>
    /\ candidates = <<>>
    /\ invoked = <<>>
    /\ config = {}
    /\ installed = {}

ConfigInit ==
    /\ NoSearch
    /\ NoBackend
    /\ NoIdentifier
    /\ \E m \in Mappings :
           heap = [o \in Objects |-> IF o = "caller" THEN m ELSE <<>>]
    /\ holder = NoInstance
    /\ cli = NoCall
    /\ client = NoCall
    /\ provider = NoCall
    /\ inpi = NoCall

ConfigNext ==
    \/ \E i \in 1..Len(ConfiguredClasses) : ConstructWith(ConfiguredClasses[i])
    \/ \E cfg \in Mappings, replace \in BOOLEAN : ConfigureWith(cfg, replace)
    \/ GetStatusOf
    \/ GetAllBackendsWith
    \/ Release

ConfigSpec == ConfigInit /\ [][ConfigNext]_vars

(* C22: no call modifies a mapping the caller passed: the mapping passed   *)
(* to the constructors, to get_backends and to search_companies keeps its  *)
(* keys and values through every step, and the mapping passed to configure *)
(* is afterwards what the caller built.                                    *)
C22_CallerMappingUnchanged ==
    [][/\ heap'["caller"] = heap["caller"]
       /\ (Held' /\ holder'.last.op = "configure")
              => heap'["given"] = holder'.last.given]_vars

C22_Witness ==
    /\ Held
    /\ holder.last.op = "configure"
    /\ ~holder.last.replace
    /\ heap["caller"] # <<>>
    /\ heap["scratch_raw"] = heap["caller"]
    /\ heap[holder.raw_config] # heap["caller"]
    /\ DOMAIN holder.last.given \cap DOMAIN heap["caller"] # {}

(* C28: the instance's config is exactly the entries of its raw            *)
(* configuration under a declared key (the whole of it when config_keys is *)
(* empty); configure with replace leaves the raw configuration equal to    *)
(* the new mapping, configure without replace leaves the new mapping's     *)
(* entries plus the earlier entries under keys the new mapping lacks.      *)
C28_ConfigIsFilteredRaw ==
    [][Held'
       => LET raw == heap'[holder'.raw_config]
              keys == Range(holder'.cls.config_keys)
              last == holder'.last
          IN  /\ DOMAIN heap'[holder'.config] =
                     IF keys = {} THEN DOMAIN raw ELSE keys \cap DOMAIN raw
              /\ \A k \in DOMAIN heap'[holder'.config] :
                     heap'[holder'.config][k] = raw[k]
              /\ (last.op = "configure" /\ last.replace)
                     => raw = last.given
              /\ (last.op = "configure" /\ ~last.replace)
                     => /\ DOMAIN raw =
                               DOMAIN last.before \cup DOMAIN last.given
                        /\ \A k \in DOMAIN last.given : raw[k] = last.given[k]
                        /\ \A k \in DOMAIN last.before \ DOMAIN last.given :
                               raw[k] = last.before[k]]_vars

C28_Witness ==
    /\ Held
    /\ holder.last.op = "configure"
    /\ ~holder.last.replace
    /\ holder.cls.config_keys # <<>>
    /\ DOMAIN holder.last.before \ DOMAIN holder.last.given # {}
    /\ \E k \in DOMAIN holder.last.before \cap DOMAIN holder.last.given :
           holder.last.before[k] # holder.last.given[k]
    /\ DOMAIN heap[holder.config] # DOMAIN heap[holder.raw_config]

(* ====================================================================== *)
(* The command line (python_companyatlas/cli.py).  argv is sys.argv:       *)
(* argv[1] here is sys.argv[0], the program name.  The search runs on the  *)
(* process's registry, installed packages and remote answers, with no      *)
(* configuration mapping.                                                  *)
(* ====================================================================== *)
Program == "companyatlas"

Prefixes ==
    {<<Program>>, <<Program, "search">>, <<Program, "list", "data">>,
     <<Program, "list", "data", "acme">>}
    \cup {<<Program, "search", f>> : f \in FetchValues}
    \cup {<<Program, "search", f, q>> : f \in FetchValues, q \in {"acme", ""}}

OptionTails ==
    {<<>>, <<"--raw">>, <<"--country-code", "fr">>, <<"--country-code">>,
     <<"--backend", "Open">>, <<"--backend", "doesnotexist">>,
     <<"--verbose">>, <<"--raw", "--backend", "Open">>}

Argvs == {p \o t : p \in Prefixes, t \in OptionTails}

(* The while loop of main over sys.argv[4:]; i is the 1-based position. *)
RECURSIVE ParseOptions(_, _, _)
ParseOptions(argv, i, acc) ==
    IF i > Len(argv) THEN acc
    ELSE IF argv[i] = "--country-code" /\ i + 1 <= Len(argv)
    THEN ParseOptions(argv, i + 2, [acc EXCEPT !.country_code = argv[i + 1]])
    ELSE IF argv[i] = "--backend" /\ i + 1 <= Len(argv)
    THEN ParseOptions(argv, i + 2, [acc EXCEPT !.backend = argv[i + 1]])
    ELSE IF argv[i] = "--raw"
    THEN ParseOptions(argv, i + 1, [acc EXCEPT !.raw = TRUE])
    ELSE [acc EXCEPT !.unknown = argv[i]]

(* main that falls through to `return 0` after reporting. *)
ResultExitCodeAlwaysZero(result) == 0

(* The part of main after search_companies has returned. *)
ResultExitCode(result) ==
    IF "error" \in DOMAIN result /\ result.error # "" THEN 1
    ELSE IF "results" \in DOMAIN result /\ result.results # <<>> THEN 0
    ELSE 1

Exited(argv, code, message, result, exc) ==
    [op |-> "main", argv |-> argv, exit |-> code, message |-> message,
     result |-> result, raised |-> exc]

(* main(): interrupt says whether the user interrupts the process while    *)
(* search_companies runs.                                                  *)
Main(argv, reg, pkgs, rem, interrupt) ==
    IF Len(argv) < 3 THEN Exited(argv, 1, "Usage", NoOutcome, "none")
    ELSE IF argv[2] # "search"
    THEN Exited(argv, 1, "Unknown command", NoOutcome, "none")
    ELSE IF Len(argv) < 4
    THEN Exited(argv, 1, "fetch type and query are required", NoOutcome,
                "none")
    ELSE IF argv[3] \notin Fetches
    THEN Exited(argv, 1, "Invalid fetch type", NoOutcome, "none")
    ELSE LET opts == ParseOptions(argv, 5,
                         [country_code |-> None, backend |-> None,
                          raw |-> FALSE, unknown |-> None])
         IN  IF opts.unknown # None
             THEN Exited(argv, 1, "Unknown option", NoOutcome, "none")
             ELSE IF interrupt
             THEN Exited(argv, 130, "Operation cancelled by user.",
                         NoOutcome, "KeyboardInterrupt")
             ELSE LET r == SearchCompaniesCall(
                               reg, {}, pkgs, rem,
                               [type |-> "str", text |-> argv[4]],
                               opts.country_code, opts.backend, argv[3])
                  IN  IF r.exc # "none"
                      THEN Exited(argv, 1, "Error", NoOutcome, r.exc)
                      ELSE Exited(argv, ResultExitCode(r.outcome), "",
                                  r.outcome, "none")

(* One run of the command. *)
RunMain(argv, interrupt) ==
    /\ cli = NoCall
    /\ cli' = Main(argv, registry, installed, remote, interrupt)
    /\ UNCHANGED <<searchVars, backendVars, identVars, config, installed,
                   heap, holder, client, provider, inpi>>

(* The process has exited; the command may be run again. *)
ExitProcess ==
    /\ cli # NoCall
    /\ cli' = NoCall
    /\ UNCHANGED <<searchVars, backendVars, identVars, config, installed,
                   heap, holder, client, provider, inpi>>

CliInit ==
    /\ NoBackend
    /\ NoIdentifier
    /\ NoConfigObjects
    /\ registry \in Registries
    /\ remote \in [Range(registry) -> {"one", "empty"}]
    /\ installed \in SUBSET Packages
    /\ config = {}
    /\ pc = "idle"
    /\ args = NoArgs
    /\ outcome = NoOutcome
    /\ raised = "none"
    /\ constructed = <<>>
    /\ evaluated = <<>>
    /\ candidates = <<>>
    /\ invoked = <<>>
    /\ cli = NoCall
    /\ client = NoCall
    /\ provider = NoCall
    /\ inpi = NoCall

CliNext ==
    \/ \E argv \in Argvs, interrupt \in BOOLEAN : RunMain(argv, interrupt)
    \/ ExitProcess

CliSpec == CliInit /\ [][CliNext]_vars

(* What the usage text calls a well-formed command line. *)
RECURSIVE KnownOptions(_)
KnownOptions(tail) ==
    \/ tail = <<>>
    \/ Head(tail) = "--raw" /\ KnownOptions(Tail(tail))
    \/ /\ Head(tail) \in {"--country-code", "--backend"}
       /\ Len(tail) >= 2
       /\ KnownOptions(Tail(Tail(tail)))

UsageError(argv) ==
    \/ Len(argv) < 4
    \/ argv[2] # "search"
    \/ argv[3] \notin {"data", "documents", "events"}
    \/ ~KnownOptions(SubSeq(argv, 5, Len(argv)))

(* C23: main returns 0 only when the search outcome has no error and a     *)
(* non-empty results list; 1 for a usage error, for an outcome carrying an *)
(* error and for an empty results list; 130 when the user interrupts the   *)
(* search.                                                                 *)
C23_ExitCodes ==
    cli # NoCall
    => /\ cli.exit \in {0, 1, 130}
       /\ cli.exit = 0
              => /\ cli.result # NoOutcome
                 /\ "error" \notin DOMAIN cli.result
                 /\ cli.result.results # <<>>
       /\ UsageError(cli.argv) => cli.exit = 1
       /\ (cli.result # NoOutcome /\ "error" \in DOMAIN cli.result)
              => cli.exit = 1
       /\ (cli.result # NoOutcome /\ cli.result.results = <<>>)
              => cli.exit = 1
       /\ cli.raised = "KeyboardInterrupt" <=> cli.exit = 130

C23_Witness ==
    /\ cli # NoCall
    /\ ~UsageError(cli.argv)
    /\ Len(cli.argv) > 4
    /\ cli.result # NoOutcome
    /\ cli.result.error = "No working backends found"
    /\ cli.exit = 1

(* ====================================================================== *)
(* The CompanyAtlas client (python_companyatlas/client.py).  A string is   *)
(* the sequence of its characters; a value carries its Python type.        *)
(* ====================================================================== *)
Alphabet ==
    <<"a", "b", "c", "d", "e", "f", "g", "h", "i", "j", "k", "l", "m",
      "n", "o", "p", "q", "r", "s", "t", "u", "v", "w", "x", "y", "z">>

Capitals ==
    <<"A", "B", "C", "D", "E", "F", "G", "H", "I", "J", "K", "L", "M",
      "N", "O", "P", "Q", "R", "S", "T", "U", "V", "W", "X", "Y", "Z">>

Whitespace == {" ", "\n", "\t"}

(* str.lower() *)
LowerChar(c) ==
    IF \E i \in 1..26 : Capitals[i] = c
    THEN Alphabet[CHOOSE i \in 1..26 : Capitals[i] = c]
    ELSE c

LowerString(s) == [i \in 1..Len(s) |-> LowerChar(s[i])]

(* str.strip() *)
RECURSIVE StripLeft(_)
StripLeft(s) ==
    IF s # <<>> /\ Head(s) \in Whitespace THEN StripLeft(Tail(s)) ELSE s

RECURSIVE StripRight(_)
StripRight(s) ==
    IF s # <<>> /\ s[Len(s)] \in Whitespace
    THEN StripRight(SubSeq(s, 1, Len(s) - 1))
    ELSE s

Strip(s) == StripRight(StripLeft(s))

(* The position of the first dot of s, 0 when it has none. *)
FirstDot(s) ==
    IF \E i \in 1..Len(s) : s[i] = "."
    THEN CHOOSE i \in 1..Len(s) :
             s[i] = "." /\ \A j \in 1..(i - 1) : s[j] # "."
    ELSE 0

(* [a-z0-9]([a-z0-9-]{0,61}[a-z0-9])? *)
MatchesLabel(l) ==
    /\ Len(l) \in 1..63
    /\ l[1] \in Range(Alphabet) \cup Digits
    /\ l[Len(l)] \in Range(Alphabet) \cup Digits
    /\ \A i \in 1..Len(l) : l[i] \in Range(Alphabet) \cup Digits \cup {"-"}

(* [a-z]{2,} *)
MatchesTld(t) ==
    /\ Len(t) >= 2
    /\ \A i \in 1..Len(t) : t[i] \in Range(Alphabet)

(* ([a-z0-9]([a-z0-9-]{0,61}[a-z0-9])?\.)+[a-z]{2,} from position 1 to    *)
(* the end of s; labels counts the labels matched so far.                  *)
RECURSIVE MatchesFrom(_, _)
MatchesFrom(s, labels) ==
    LET dot == FirstDot(s)
    IN  IF dot = 0 THEN labels >= 1 /\ MatchesTld(s)
        ELSE /\ MatchesLabel(SubSeq(s, 1, dot - 1))
             /\ MatchesFrom(SubSeq(s, dot + 1, Len(s)), labels + 1)

(* re.match(domain_pattern, domain) *)
MatchesDomainPattern(s) == MatchesFrom(s, 0)

InjectionChars == {"/", "\\", ":", "?", "#", "[", "]", "@", "!"}

(* Python truth of a value. *)
TruthyValue(v) ==
    CASE v.type = "str" -> v.chars # <<>>
      [] v.type = "int" -> v.number # 0
      [] OTHER -> FALSE

(* CompanyAtlas._validate_domain: the message of the ValueError it raises, *)
(* "none" when it returns.                                                 *)
ValidateDomain(v) ==
    IF ~TruthyValue(v) \/ v.type # "str"
    THEN "Domain must be a non-empty string"
    ELSE LET domain == LowerString(Strip(v.chars))
         IN  IF ~MatchesDomainPattern(domain) THEN "Invalid domain format"
             ELSE IF Len(domain) > 253 THEN "Domain name too long"
             ELSE IF \E i \in 1..Len(domain) : domain[i] \in InjectionChars
             THEN "Domain contains invalid characters"
             ELSE "none"

(* CompanyAtlas.lookup *)
Lookup(v) ==
    LET message == ValidateDomain(v)
    IN  IF message # "none"
        THEN [op |-> "lookup", arg |-> v, exc |-> "ValueError",
              message |-> message, value |-> None]
        ELSE [op |-> "lookup", arg |-> v, exc |-> "none", message |-> "",
              value |-> [domain |-> v.chars,
                         name |-> <<"Company for ">> \o v.chars,
                         status |-> "pending"]]

True == "True"

False == "False"

(* dict.copy() *)
Copy(d) == [k \in DOMAIN d |-> d[k]]

(* enrich that keeps an "enriched" entry the input already has. *)
EnrichedKeepingEntry(d) ==
    LET enriched == Copy(d)
    IN  [k \in DOMAIN enriched \cup {"enriched"} |->
            IF k \in DOMAIN enriched THEN enriched[k] ELSE True]

(* CompanyAtlas.enrich: the mapping it returns. *)
Enriched(d) ==
    LET enriched == Copy(d)
    IN  [k \in DOMAIN enriched \cup {"enriched"} |->
            IF k = "enriched" THEN True ELSE enriched[k]]

StrValue(chars) == [type |-> "str", chars |-> chars]

IntValue(n) == [type |-> "int", number |-> n]

NoneValue == [type |-> "NoneType"]

Repeat(c, n) == [i \in 1..n |-> c]

(* The domains looked up: hostnames, malformed names, the lengths around   *)
(* the limits of the pattern, with and without surrounding whitespace.     *)
Cores ==
    {<<"a", ".", "c", "o">>, <<"A", ".", "C", "o">>, <<"a", ".", "c">>,
     <<"a", ".", "c", "1">>, <<"-", "a", ".", "c", "o">>,
     <<"a", "-", ".", "c", "o">>, <<"a", "-", "b", ".", "c", "o">>,
     <<"a", ".", ".", "c", "o">>, <<"a", ".", "c", "o", ".">>,
     <<"a", ".", "b", "9", ".", "c", "o">>, <<"a", "_", "b", ".", "c", "o">>,
     <<"a", "/", "b", ".", "c", "o">>, <<"a", " ", "b", ".", "c", "o">>,
     <<"h", "o", "s", "t">>,
     <<"a", ".">> \o Repeat("b", 64),
     Repeat("a", 63) \o <<".", "c", "o">>,
     Repeat("a", 64) \o <<".", "c", "o">>,
     Repeat("a", 63) \o <<".">> \o Repeat("b", 63) \o <<".">>
         \o Repeat("c", 63) \o <<".">> \o Repeat("d", 59) \o <<".", "c", "o">>,
     Repeat("a", 63) \o <<".">> \o Repeat("b", 63) \o <<".">>
         \o Repeat("c", 63) \o <<".">> \o Repeat("d", 58) \o <<".", "c", "o">>}

Paddings == {<<>>, <<" ">>, <<"\n">>}

Domains ==
    {NoneValue, IntValue(0), IntValue(5), StrValue(<<>>), StrValue(<<" ">>)}
    \cup {StrValue(l \o c \o r) : l \in Paddings, c \in Cores, r \in Paddings}

CompanyFields == {"domain", "name", "enriched"}

FieldValues == {"example.com", True, False}

CompanyData == UNION {[K -> FieldValues] : K \in SUBSET CompanyFields}

(* atlas.lookup(v) *)
LookupCall(v) ==
    /\ client' = Lookup(v)
    /\ UNCHANGED <<searchVars, backendVars, identVars, config, installed,
                   heap, holder, cli, provider, inpi>>

(* atlas.enrich(d) *)
EnrichCall(d) ==
    /\ client' = [op |-> "enrich", arg |-> d, exc |-> "none",
                  message |-> "", value |-> Enriched(d)]
    /\ UNCHANGED <<searchVars, backendVars, identVars, config, installed,
                   heap, holder, cli, provider, inpi>>

ClientInit ==
    /\ NoSearch
    /\ NoBackend
    /\ NoIdentifier
    /\ NoConfigObjects
    /\ cli = NoCall
    /\ client = NoCall
    /\ provider = NoCall
    /\ inpi = NoCall

ClientNext ==
    \/ \E v \in Domains : LookupCall(v)
    \/ \E d \in CompanyData : EnrichCall(d)

ClientSpec == ClientInit /\ [][ClientNext]_vars

(* The form of a hostname: labels of 1 to 63 letters, digits and hyphens,  *)
(* none beginning or ending with a hyphen, separated by dots, at most 253  *)
(* characters in all.                                                      *)
RECURSIVE HostnameLabels(_)
HostnameLabels(s) ==
    LET dot == FirstDot(s)
        label == IF dot = 0 THEN s ELSE SubSeq(s, 1, dot - 1)
    IN  /\ Len(label) \in 1..63
        /\ label[1] # "-"
        /\ label[Len(label)] # "-"
        /\ \A i \in 1..Len(label) :
               label[i] \in Range(Alphabet) \cup Range(Capitals)
                            \cup Digits \cup {"-"}
        /\ dot # 0 => HostnameLabels(SubSeq(s, dot + 1, Len(s)))

HostnameForm(s) == Len(s) <= 253 /\ HostnameLabels(s)

(* C26: lookup raises ValueError and returns nothing for every domain that *)
(* is empty, is not a string or does not have the form of a valid          *)
(* hostname, and returns a mapping only for a domain that passes           *)
(* _validate_domain.                                                       *)
C26_LookupRejectsInvalid ==
    client.op = "lookup"
    => /\ (\/ client.arg.type # "str"
           \/ client.arg.chars = <<>>
           \/ ~HostnameForm(client.arg.chars))
              => client.exc = "ValueError"
       /\ client.exc = "none" => ValidateDomain(client.arg) = "none"

(* C27: enrich(d) returns a mapping in which every field of d other than   *)
(* "enriched" has the value it has in d and in which "enriched" is True.   *)
C27_EnrichKeepsFields ==
    client.op = "enrich"
    => /\ \A k \in DOMAIN client.arg \ {"enriched"} :
              /\ k \in DOMAIN client.value
              /\ client.value[k] = client.arg[k]
       /\ "enriched" \in DOMAIN client.value
       /\ client.value["enriched"] = True

C27_Witness ==
    /\ client.op = "enrich"
    /\ DOMAIN client.arg = CompanyFields
    /\ client.arg["enriched"] = False
    /\ client.value["enriched"] = True
    /\ client.value["name"] = "example.com"

(* ====================================================================== *)
(* Field normalisation of the providers                                    *)
(* (companyatlas/providers/europe/france).  A raw record is a nested       *)
(* mapping: a node is a value or a mapping from keys to nodes.  A path is  *)
(* the sequence of the keys of a dotted path.  A string built by join or   *)
(* by an f-string is the sequence of its pieces.                           *)
(* ====================================================================== *)
Value(v) == [kind |-> "value", value |-> v]

Dict(items) == [kind |-> "dict", items |-> items]

(* ProviderBase._get_nested_value(data, path, default): dotted-path        *)
(* traversal through nested mappings.                                      *)
RECURSIVE GetNestedValue(_, _, _)
GetNestedValue(data, path, default) ==
    IF path = <<>>
    THEN IF data.kind = "value" THEN data.value ELSE default
    ELSE IF data.kind = "dict" /\ Head(path) \in DOMAIN data.items
    THEN GetNestedValue(data.items[Head(path)], Tail(path), default)
    ELSE default

(* sep.join(parts) *)
RECURSIVE Join(_, _)
Join(parts, sep) ==
    IF Len(parts) <= 1 THEN parts
    ELSE <<Head(parts), sep>> \o Join(Tail(parts), sep)

(* [part for part in parts if part] *)
Present(parts) == SelectSeq(parts, LAMBDA part : part # None)

InseeAddressPaths ==
    <<<<"adresseEtablissement", "numeroVoieEtablissement">>,
      <<"adresseEtablissement", "typeVoieEtablissement">>,
      <<"adresseEtablissement", "libelleVoieEtablissement">>,
      <<"adresseEtablissement", "codePostalEtablissement">>,
      <<"adresseEtablissement", "libelleCommuneEtablissement">>>>

InseeCountryPath == <<"adresseEtablissement", "libellePaysEtablissement">>

EntdatagouvAddressPaths ==
    <<<<"siege", "numero_voie">>, <<"siege", "type_voie">>,
      <<"siege", "libelle_voie">>>>

(* The class attributes of a provider: a field association is the ordered  *)
(* list of its source paths (one path for a plain string); overrides are   *)
(* the fields the class has a get_normalize_<field> method for.            *)
InseeProvider ==
    [name |-> "insee", geo_country |-> "france",
     fields_associations |->
         [denomination |-> <<<<"uniteLegale", "denominationUniteLegale">>>>,
          reference |-> <<<<"siren">>, <<"siret">>,
                          <<"uniteLegale",
                            "identifiantAssociationUniteLegale">>>>,
          address |-> InseeAddressPaths],
     overrides |-> {"address"}]

EntdatagouvProvider ==
    [name |-> "entdatagouv", geo_country |-> "france",
     fields_associations |->
         [siren |-> <<<<"siren">>>>,
          denomination |-> <<<<"nom_complet">>, <<"nom_raison_sociale">>>>],
     overrides |-> {"address_line1"}]

Providers == {InseeProvider, EntdatagouvProvider}

(* InseeProvider.get_normalize_address *)
InseeGetNormalizeAddress(cls, data) ==
    LET number == GetNestedValue(data, InseeAddressPaths[1], None)
        street_type == GetNestedValue(data, InseeAddressPaths[2], None)
        street_name == GetNestedValue(data, InseeAddressPaths[3], None)
        postal_code == GetNestedValue(data, InseeAddressPaths[4], None)
        city == GetNestedValue(data, InseeAddressPaths[5], None)
        country == GetNestedValue(data, InseeCountryPath, cls.geo_country)
        address_line == Present(<<number, street_type, street_name>>)
        parts == (IF address_line # <<>>
                  THEN <<Join(address_line, " ")>> ELSE <<>>)
                 \o (IF postal_code # None THEN <<<<postal_code>>>> ELSE <<>>)
                 \o (IF city # None THEN <<<<city>>>> ELSE <<>>)
                 \o (IF country # None THEN <<<<country>>>> ELSE <<>>)
        Flat(seq) == IF seq = <<>> THEN <<>>
                     ELSE IF Len(seq) = 1 THEN seq[1]
                     ELSE IF Len(seq) = 2 THEN seq[1] \o <<", ">> \o seq[2]
                     ELSE IF Len(seq) = 3
                     THEN seq[1] \o <<", ">> \o seq[2] \o <<", ">> \o seq[3]
                     ELSE seq[1] \o <<", ">> \o seq[2] \o <<", ">> \o seq[3]
                          \o <<", ">> \o seq[4]
    IN  IF parts # <<>> THEN Flat(parts) ELSE None

(* EntdatagouvProvider.get_normalize_address_line1: f"{nv} {tv} {lv}";     *)
(* str(None) is "None".                                                    *)
EntdatagouvGetNormalizeAddressLine1(cls, data) ==
    LET nv == GetNestedValue(data, EntdatagouvAddressPaths[1], None)
        tv == GetNestedValue(data, EntdatagouvAddressPaths[2], None)
        lv == GetNestedValue(data, EntdatagouvAddressPaths[3], None)
    IN  <<nv, " ", tv, " ", lv>>

(* The first path of an association that resolves to a value. *)
RECURSIVE FirstResolved(_, _)
FirstResolved(data, paths) ==
    IF paths = <<>> THEN None
    ELSE IF GetNestedValue(data, Head(paths), None) # None
    THEN GetNestedValue(data, Head(paths), None)
    ELSE FirstResolved(data, Tail(paths))

(* One field of ProviderBase.normalize: the class's override when it has   *)
(* one, else the field association, else nothing.                          *)
NormalizeField(cls, field, data) ==
    IF field \in cls.overrides
    THEN IF cls.name = "insee" THEN InseeGetNormalizeAddress(cls, data)
         ELSE EntdatagouvGetNormalizeAddressLine1(cls, data)
    ELSE IF field \in DOMAIN cls.fields_associations
    THEN FirstResolved(data, cls.fields_associations[field])
    ELSE None

NormalizedFields(cls) == DOMAIN cls.fields_associations \cup cls.overrides

(* ProviderBase.normalize: a field that resolves to nothing is left out. *)
Normalize(cls, data) ==
    LET resolved == {f \in NormalizedFields(cls) :
                        NormalizeField(cls, f, data) # None}
    IN  [f \in resolved |-> NormalizeField(cls, f, data)]

(* The raw records: every leaf is present with one value or absent, and a  *)
(* nested mapping is present when one of its leaves is.                    *)
InseeLeaves ==
    {<<"siren">>, <<"siret">>, <<"uniteLegale", "denominationUniteLegale">>,
     <<"uniteLegale", "identifiantAssociationUniteLegale">>,
     InseeCountryPath}
    \cup Range(InseeAddressPaths)

EntdatagouvLeaves ==
    {<<"siren">>, <<"nom_complet">>, <<"nom_raison_sociale">>}
    \cup Range(EntdatagouvAddressPaths)

Leaves(cls) == IF cls.name = "insee" THEN InseeLeaves ELSE EntdatagouvLeaves

(* The value a registry gives a leaf: named after the leaf, so that two     *)
(* leaves never carry the same value.                                      *)
LeafValue(path) == <<"value of", path[Len(path)]>>

RawRecord(present) ==
    LET top == {p[1] : p \in present}
        Node(k) == IF <<k>> \in present THEN Value(LeafValue(<<k>>))
                   ELSE Dict([j \in {p[2] : p \in {q \in present :
                                                      Len(q) = 2 /\ q[1] = k}}
                                 |-> Value(LeafValue(<<k, j>>))])
    IN  Dict([k \in top |-> Node(k)])

RawRecords(cls) == {RawRecord(present) : present \in SUBSET Leaves(cls)}

(* provider.normalize(fields, record) on a record of its registry. *)
NormalizeCall(cls, data) ==
    /\ provider = NoCall
    /\ provider' = [op |-> "normalize", cls |-> cls.name, data |-> data,
                    value |-> Normalize(cls, data)]
    /\ UNCHANGED <<searchVars, backendVars, identVars, config, installed,
                   heap, holder, cli, client, inpi>>

(* The caller has taken the normalised record. *)
TakeNormalized ==
    /\ provider # NoCall
    /\ provider' = NoCall
    /\ UNCHANGED <<searchVars, backendVars, identVars, config, installed,
                   heap, holder, cli, client, inpi>>

ProviderInit ==
    /\ NoSearch
    /\ NoBackend
    /\ NoIdentifier
    /\ NoConfigObjects
    /\ cli = NoCall
    /\ client = NoCall
    /\ provider = NoCall
    /\ inpi = NoCall

ProviderNext ==
    \/ \E cls \in Providers : \E data \in RawRecords(cls) :
           NormalizeCall(cls, data)
    \/ TakeNormalized

ProviderSpec == ProviderInit /\ [][ProviderNext]_vars

(* What the raw record of the last normalisation carries at a path. *)
Carried(path) == GetNestedValue(provider.data, path, None)

(* C24: the normalised reference of an INSEE record is the association id  *)
(* when the record carries one, otherwise the SIRET when it carries one,   *)
(* otherwise the SIREN.                                                    *)
C24_ReferencePreference ==
    (provider.op = "normalize" /\ provider.cls = "insee")
    => LET rna == Carried(<<"uniteLegale",
                            "identifiantAssociationUniteLegale">>)
           siret == Carried(<<"siret">>)
           siren == Carried(<<"siren">>)
           best == IF rna # None THEN rna
                   ELSE IF siret # None THEN siret ELSE siren
       IN  IF best = None THEN "reference" \notin DOMAIN provider.value
           ELSE /\ "reference" \in DOMAIN provider.value
                /\ provider.value["reference"] = best

(* The address field of a provider and the fragments it is built from. *)
AddressField == IF provider.cls = "insee" THEN "address" ELSE "address_line1"

Fragments ==
    IF provider.cls = "insee" THEN Range(InseeAddressPaths)
    ELSE Range(EntdatagouvAddressPaths)

(* C25: an address field built from fragments contains only the fragments  *)
(* the raw record carries (besides separators and, for INSEE, the          *)
(* country), and is absent when the record carries none of them.           *)
C25_AddressOmitsAbsentFragments ==
    provider.op = "normalize"
    => LET carried == {Carried(p) : p \in {q \in Fragments :
                                              Carried(q) # None}}
       IN  IF carried = {}
           THEN AddressField \notin DOMAIN provider.value
           ELSE /\ AddressField \in DOMAIN provider.value
                /\ Range(provider.value[AddressField])
                       \ {" ", ", ", Carried(InseeCountryPath), "france"}
                   = carried

(* ====================================================================== *)
(* The token cache of one InpiProvider instance                            *)
(* (companyatlas/providers/europe/france/inpi.py).  inpi holds the         *)
(* instance's _token, the number of _call_api calls made on it, and the    *)
(* last call: the credentials the configuration and environment gave it,   *)
(* what the login and data endpoints answered, the requests it sent and    *)
(* the value it returned.                                                  *)
(* ====================================================================== *)

(* Most _call_api calls made on the instance. *)
MaxCalls == 3

Credentials == {"USERNAME", "PASSWORD"}

(* What the login endpoint answers: a JSON body with "token" and           *)
(* "access_token" (None when the body lacks the key), or a failure (an     *)
(* HTTP error status, a timeout, a body that is no JSON).                  *)
LoginJson(token, access_token) ==
    [kind |-> "json", token |-> token, access_token |-> access_token]

LoginAnswers ==
    {LoginJson("t1", None), LoginJson(None, "t2"), LoginJson("", "t2"),
     LoginJson(None, None), LoginJson("", None), [kind |-> "failure"]}

DataAnswers == {"json", "failure"}

LoginRequest == [kind |-> "login"]

DataRequest(token) == [kind |-> "data", bearer |-> token]

(* Python truth of an optional string. *)
TruthyString(t) == t # None /\ t # ""

(* _get_token without the test of the cached token. *)
GetTokenUncached(token, pkgs, creds, login) ==
    IF "requests" \notin pkgs
    THEN [token |-> token, value |-> None, sent |-> <<>>]
    ELSE IF ~(Credentials \subseteq creds)
    THEN [token |-> token, value |-> None, sent |-> <<>>]
    ELSE IF login.kind = "failure"
    THEN [token |-> token, value |-> None, sent |-> <<LoginRequest>>]
    ELSE LET t == IF TruthyString(login.token) THEN login.token
                  ELSE login.access_token
         IN  [token |-> t, value |-> t, sent |-> <<LoginRequest>>]

(* InpiProvider._get_token: the _token it leaves, the value it returns and *)
(* the requests it sent.                                                   *)
GetToken(token, pkgs, creds, login) ==
    IF TruthyString(token)
    THEN [token |-> token, value |-> token, sent |-> <<>>]
    ELSE IF "requests" \notin pkgs
    THEN [token |-> token, value |-> None, sent |-> <<>>]
    ELSE IF ~(Credentials \subseteq creds)
    THEN [token |-> token, value |-> None, sent |-> <<>>]
    ELSE IF login.kind = "failure"
    THEN [token |-> token, value |-> None, sent |-> <<LoginRequest>>]
    ELSE LET t == IF TruthyString(login.token) THEN login.token
                  ELSE login.access_token
         IN  [token |-> t, value |-> t, sent |-> <<LoginRequest>>]

(* InpiProvider._call_api *)
CallApi(token, pkgs, creds, login, data) ==
    IF "requests" \notin pkgs
    THEN [token |-> token, value |-> None, sent |-> <<>>]
    ELSE LET got == GetToken(token, pkgs, creds, login)
         IN  IF ~TruthyString(got.value)
             THEN [token |-> got.token, value |-> None, sent |-> got.sent]
             ELSE [token |-> got.token,
                   value |-> IF data = "json" THEN "json" ELSE None,
                   sent |-> Append(got.sent, DataRequest(got.value))]

(* InpiProvider.__init__ *)
NewInpiProvider ==
    [op |-> "init", token |-> None, calls |-> 0, creds |-> {},
     login |-> [kind |-> "failure"], data |-> "failure", sent |-> <<>>,
     value |-> None]

(* provider._call_api(url, params) *)
CallApiCall(creds, login, data) ==
    /\ inpi.calls < MaxCalls
    /\ \E r \in {CallApi(inpi.token, installed, creds, login, data)} :
           inpi' = [op |-> "_call_api", token |-> r.token,
                    calls |-> inpi.calls + 1, creds |-> creds,
                    login |-> login, data |-> data, sent |-> r.sent,
                    value |-> r.value]
    /\ UNCHANGED <<searchVars, backendVars, identVars, config, installed,
                   heap, holder, cli, client, provider>>

InpiInit ==
    /\ NoBackend
    /\ NoIdentifier
    /\ NoConfigObjects
    /\ registry = <<>>
    /\ remote = <<>>
    /\ pc = "idle"
    /\ args = NoArgs
    /\ outcome = NoOutcome
    /\ raised = "none"
    /\ constructed = <<>>
    /\ evaluated = <<>>
    /\ candidates = <<>>
    /\ invoked = <<>>
    /\ config = {}
    /\ installed \in SUBSET Packages
    /\ cli = NoCall
    /\ client = NoCall
    /\ provider = NoCall
    /\ inpi = NewInpiProvider

InpiNext ==
    \E creds \in SUBSET Credentials, login \in LoginAnswers,
       data \in DataAnswers : CallApiCall(creds, login, data)

InpiSpec == InpiInit /\ [][InpiNext]_vars

(* The login of a call fails: the endpoint fails or its body has no token. *)
LoginFails(login) ==
    \/ login.kind = "failure"
    \/ /\ login.token \in {None, ""}
       /\ login.access_token \in {None, ""}

(* C30: once a login has returned a token, every later _call_api sends no  *)
(* login request and sends its data request with that token; a call whose  *)
(* login fails or finds the username or password missing leaves the token  *)
(* unset, returns None and sends no data request, and a call made with no  *)
(* token set and both credentials begins with a login request.             *)
C30_TokenCached ==
    [][inpi'.calls = inpi.calls + 1
       => /\ inpi.token \notin {None, ""}
                 => /\ inpi'.token = inpi.token
                    /\ LoginRequest \notin Range(inpi'.sent)
                    /\ inpi'.sent = <<DataRequest(inpi.token)>>
          /\ (/\ inpi.token \in {None, ""}
              /\ \/ ~(Credentials \subseteq inpi'.creds)
                 \/ LoginFails(inpi'.login))
                 => /\ inpi'.token \in {None, ""}
                    /\ inpi'.value = None
                    /\ \A i \in 1..Len(inpi'.sent) :
                           inpi'.sent[i].kind # "data"
          /\ (/\ inpi.token \in {None, ""}
              /\ Credentials \subseteq inpi'.creds
              /\ "requests" \in installed)
                 => (inpi'.sent # <<>> /\ inpi'.sent[1] = LoginRequest)]_vars

C30_Witness ==
    /\ inpi.calls = 3
    /\ inpi.token = "t2"
    /\ inpi.sent = <<DataRequest("t2")>>
    /\ inpi.login = LoginJson("t1", None)
    /\ Credentials \subseteq inpi.creds

====
